---- MODULE Spec2Model ----
(***************************************************************************)
(* A model of histclean (src/histclean.py): the zsh history cleaner.       *)
(*                                                                         *)
(* Text is modelled character by character: a Python str is a sequence of  *)
(* one-character strings (a few characters are written "U+XXXX"),          *)
(* a raw history line is such a sequence, an entry block is a sequence of  *)
(* lines.  Regular expressions are modelled by what they match on such     *)
(* sequences.  Entry indices are 0-based as in the source; a TLA+ sequence *)
(* position is the index plus one.                                         *)
(***************************************************************************)
EXTENDS Naturals, Integers, Sequences, FiniteSets

\* ========================================================================
\* CHARACTERS AND STRINGS (Python str, re)
\* ========================================================================

\* The printable ASCII characters, \x20 .. \x7E, in code point order.
AsciiPrintable ==
    << " ", "!", "U+0022", "#", "$", "%", "&", "'", "(", ")", "*", "+", ",", "-", ".", "/",
       "0", "1", "2", "3", "4", "5", "6", "7", "8", "9", ":", ";", "<", "=", ">", "?",
       "@", "A", "B", "C", "D", "E", "F", "G", "H", "I", "J", "K", "L", "M", "N", "O",
       "P", "Q", "R", "S", "T", "U", "V", "W", "X", "Y", "Z", "[", "U+005C", "]", "^", "_",
       "U+0060", "a", "b", "c", "d", "e", "f", "g", "h", "i", "j", "k", "l", "m", "n", "o",
       "p", "q", "r", "s", "t", "u", "v", "w", "x", "y", "z", "{", "|", "}", "~" >>

\* The code point of a character (Python's ord).
ord(c) ==
    IF \E i \in 1..Len(AsciiPrintable) : AsciiPrintable[i] = c
    THEN 31 + (CHOOSE i \in 1..Len(AsciiPrintable) : AsciiPrintable[i] = c)
    ELSE CASE c = "\t" -> 9
           [] c = "\n" -> 10
           [] c = "U+00E9" -> 233
           [] c = "U+05D0" -> 1488
           [] c = "U+05EA" -> 1514

\* str.lower() of one character, as re.IGNORECASE compares ASCII letters.
lower(c) == IF ord(c) >= 65 /\ ord(c) <= 90 THEN AsciiPrintable[ord(c) + 1] ELSE c

\* \d
IsDigit(c) == ord(c) >= 48 /\ ord(c) <= 57

\* \s, and the characters str.strip() removes.
IsSpace(c) == c \in {" ", "\t", "\n"}

\* The slice s[lo:hi] of Python, on 0-based offsets.
Slice(s, lo, hi) == SubSeq(s, lo + 1, hi)

\* s[lo:]
SliceFrom(s, lo) == SubSeq(s, lo + 1, Len(s))

\* Whether the text t occurs in s at 0-based offset p.
StartsAt(s, p, t) == p + Len(t) <= Len(s) /\ Slice(s, p, p + Len(t)) = t

\* Whether every character of s at offsets lo .. hi-1 satisfies the class.
AllSpace(s, lo, hi) == \A k \in (lo + 1)..hi : IsSpace(s[k])

\* str.strip()
strip(s) ==
    IF \A k \in 1..Len(s) : IsSpace(s[k]) THEN <<>>
    ELSE LET first == CHOOSE k \in 1..Len(s) :
                          ~IsSpace(s[k]) /\ \A m \in 1..(k - 1) : IsSpace(s[m])
             last  == CHOOSE k \in 1..Len(s) :
                          ~IsSpace(s[k]) /\ \A m \in (k + 1)..Len(s) : IsSpace(s[m])
         IN  SubSeq(s, first, last)

RECURSIVE join(_, _)
\* sep.join(parts), for a sequence of strings.
join(sep, parts) ==
    IF parts = <<>> THEN <<>>
    ELSE IF Len(parts) = 1 THEN parts[1]
    ELSE parts[1] \o sep \o join(sep, Tail(parts))

RECURSIVE Flatten(_)
\* The concatenation of a sequence of sequences.
Flatten(seqs) == IF seqs = <<>> THEN <<>> ELSE Head(seqs) \o Flatten(Tail(seqs))

\* ========================================================================
\* PARSING & UTILITIES
\* ========================================================================

\* HISTORY_ENTRY_RE.match(line): ^: \d{10}:\d+;
HISTORY_ENTRY_RE(line) ==
    /\ Len(line) >= 15
    /\ line[1] = ":"
    /\ line[2] = " "
    /\ \A k \in 3..12 : IsDigit(line[k])
    /\ line[13] = ":"
    /\ \E n \in 1..(Len(line) - 14) :
          /\ \A k \in 14..(13 + n) : IsDigit(line[k])
          /\ line[14 + n] = ";"

\* first_line.split(";", 1)[1]: the text after the first ";" of the line.
AfterFirstSemicolon(line) ==
    LET p == CHOOSE k \in 1..Len(line) :
                 line[k] = ";" /\ \A m \in 1..(k - 1) : line[m] # ";"
    IN  SubSeq(line, p + 1, Len(line))

\* remove_timestamp_from_entry: the command text (payload) of an entry block.
remove_timestamp_from_entry(entry_block) ==
    IF entry_block = <<>> THEN <<>>
    ELSE IF HISTORY_ENTRY_RE(entry_block[1])
         THEN join(<<"\n">>, <<AfterFirstSemicolon(entry_block[1])>> \o Tail(entry_block))
         ELSE join(<<"\n">>, entry_block)

\* A faulty inner loop: it takes one following line at most (if for while).
BlockEnd_AtMostOneLine(all_lines, j) ==
    IF j < Len(all_lines) /\ ~HISTORY_ENTRY_RE(all_lines[j + 1]) THEN j + 1 ELSE j

RECURSIVE BlockEnd(_, _)
\* The inner loop of parse_history_entries: from offset j, the first offset
\* that is the end of the input or holds a header line.
BlockEnd(all_lines, j) ==
    IF j < Len(all_lines) /\ ~HISTORY_ENTRY_RE(all_lines[j + 1])
    THEN BlockEnd(all_lines, j + 1)
    ELSE j

\* A faulty block: the inner loop's last line is left out of the block
\* (all_lines[i:j-1]) when the entry has continuation lines.
HeaderBlock_DropsLastLine(all_lines, i, j) ==
    IF j > i + 1 THEN Slice(all_lines, i, j - 1) ELSE Slice(all_lines, i, j)

\* The block yielded for a header line at offset i whose block ends at j:
\* all_lines[i:j].
HeaderBlock(all_lines, i, j) == Slice(all_lines, i, j)

RECURSIVE ParseFrom(_, _)
\* The outer loop of parse_history_entries from offset i: the sequence of
\* yielded pairs <<start_line, block>>.
ParseFrom(all_lines, i) ==
    IF i < Len(all_lines)
    THEN IF HISTORY_ENTRY_RE(all_lines[i + 1])
         THEN LET j == BlockEnd(all_lines, i + 1)
              IN  << <<i, HeaderBlock(all_lines, i, j)>> >> \o ParseFrom(all_lines, j)
         ELSE << <<i, <<all_lines[i + 1]>> >> >> \o ParseFrom(all_lines, i + 1)
    ELSE <<>>

\* parse_history_entries(all_lines), as the list main makes of it.
parse_history_entries(all_lines) ==
    IF all_lines = <<>> THEN <<>> ELSE ParseFrom(all_lines, 0)

\* A faulty payload: the surrounding whitespace kept.
StrippedCommand_Unstripped(entries, i) == remove_timestamp_from_entry(entries[i + 1])

\* The payload of entry index i with surrounding whitespace stripped:
\* remove_timestamp_from_entry(entry).strip()
StrippedCommand(entries, i) == strip(remove_timestamp_from_entry(entries[i + 1]))

\* re.search(r"# *HIST:KEEP", command, re.IGNORECASE)
HistKeepSearch(command) ==
    LET marker == <<"h", "i", "s", "t", ":", "k", "e", "e", "p">>
    IN  \E p \in 1..Len(command) :
          /\ command[p] = "#"
          /\ \E q \in p..Len(command) :
                /\ \A k \in (p + 1)..q : command[k] = " "
                /\ q + Len(marker) <= Len(command)
                /\ \A k \in 1..Len(marker) : lower(command[q + k]) = marker[k]

\* has_hist_keep(index) of filter_flags_by_hist_keep, and the same test in
\* calculate_indices_to_remove.
has_hist_keep(entries, index) ==
    IF index >= Len(entries) THEN FALSE
    ELSE HistKeepSearch(remove_timestamp_from_entry(entries[index + 1]))

\* ========================================================================
\* INDIVIDUAL ENTRY FLAGGING STRATEGIES
\* ========================================================================

\* The entry indices 0 .. n-1 in order (enumerate).
Range0(n) == [k \in 1..n |-> k - 1]

\* A reason line.  text is the fixed wording; match is the matched text a
\* blacklist reason quotes (f"Matches '{match.group()}'"), empty otherwise.
Reason(text, match) == [text |-> text, match |-> match]

\* flag_individual_multiline: yields <<i, reason>>.
flag_individual_multiline(all_entries) ==
    LET hit == SelectSeq(Range0(Len(all_entries)),
                         LAMBDA i : Len(all_entries[i + 1]) > 1)
    IN  [k \in 1..Len(hit) |-> <<hit[k], Reason("It is a multi-line entry.", <<>>)>>]

\* flag_individual_empty: yields <<i, reason>>.
flag_individual_empty(all_entries) ==
    LET hit == SelectSeq(Range0(Len(all_entries)),
                         LAMBDA i : strip(remove_timestamp_from_entry(all_entries[i + 1])) = <<>>)
    IN  [k \in 1..Len(hit) |-> <<hit[k], Reason("It is an empty entry.", <<>>)>>]

\* The result of pattern.search: None, or a match object with its group().
NoMatch == [found |-> FALSE, group |-> <<>>]

Match(text) == [found |-> TRUE, group |-> text]

\* The leftmost maximal run of characters of a class: re.search of [class]+.
SearchRun(command, InClass(_)) ==
    IF \E p \in 1..Len(command) : InClass(command[p])
    THEN LET p == CHOOSE k \in 1..Len(command) :
                      InClass(command[k]) /\ \A m \in 1..(k - 1) : ~InClass(command[m])
             q == CHOOSE k \in p..Len(command) :
                      /\ \A m \in p..k : InClass(command[m])
                      /\ (k = Len(command) \/ ~InClass(command[k + 1]))
         IN  Match(SubSeq(command, p, q))
    ELSE NoMatch

\* re.compile(r"--version\s*$").search: "--version" with nothing but
\* whitespace after it, up to the end of the text.
SearchVersionFlag(command) ==
    LET word == <<"-", "-", "v", "e", "r", "s", "i", "o", "n">>
        Hit(p) == StartsAt(command, p, word) /\ AllSpace(command, p + Len(word), Len(command))
    IN  IF \E p \in 0..Len(command) : Hit(p)
        THEN LET p == CHOOSE k \in 0..Len(command) : Hit(k) /\ \A m \in 0..(k - 1) : ~Hit(m)
             IN  Match(SliceFrom(command, p))
        ELSE NoMatch

\* re.compile(r"[U+05D0-U+05EA]+").search: a run of Hebrew letters.
SearchHebrew(command) ==
    SearchRun(command, LAMBDA c : ord(c) >= 1488 /\ ord(c) <= 1514)

\* re.compile(r"[^\x20-\x7E\t]+").search: a run of characters that are
\* neither printable ASCII nor a tab.
SearchNonAscii(command) ==
    SearchRun(command, LAMBDA c : ~(ord(c) >= 32 /\ ord(c) <= 126) /\ c # "\t")

\* re.compile(r"^ *\n?$").search: spaces, then at most one newline, up to
\* the end of the text or to a newline that ends it.
SearchEmptyLine(command) ==
    LET n  == Len(command)
        sp == CHOOSE k \in 0..n :
                  /\ \A m \in 1..k : command[m] = " "
                  /\ (k = n \/ command[k + 1] # " ")
    IN  IF sp = n THEN Match(command)
        ELSE IF command[sp + 1] = "\n" /\ (sp + 1 = n \/ (sp + 2 = n /\ command[n] = "\n"))
             THEN Match(SubSeq(command, 1, sp + 1))
             ELSE NoMatch

\* re.compile(r"^.$", re.DOTALL).search: one character, up to the end of
\* the text or to a newline that ends it.
SearchSingleChar(command) ==
    IF Len(command) = 1 \/ (Len(command) = 2 /\ command[2] = "\n")
    THEN Match(SubSeq(command, 1, 1))
    ELSE NoMatch

\* [pattern.search(command) for pattern in BLACKLIST_PATTERNS], in list order.
BLACKLIST_PATTERNS(command) ==
    << SearchVersionFlag(command),
       SearchHebrew(command),
       SearchNonAscii(command),
       SearchEmptyLine(command),
       SearchSingleChar(command) >>

\* next((pattern.search(command) for pattern in BLACKLIST_PATTERNS), None):
\* the first value the generator yields, which is the first pattern's search
\* result whether or not it matched; None only for an empty pattern list.
NextSearchResult(command) ==
    LET results == BLACKLIST_PATTERNS(command)
    IN  IF results = <<>> THEN NoMatch ELSE results[1]

\* flag_individual_blacklist: yields <<i, reason>>.
flag_individual_blacklist(all_entries) ==
    LET hit == SelectSeq(Range0(Len(all_entries)),
                         LAMBDA i : NextSearchResult(remove_timestamp_from_entry(all_entries[i + 1])).found)
    IN  [k \in 1..Len(hit) |->
            <<hit[k], Reason("Matches", NextSearchResult(remove_timestamp_from_entry(all_entries[hit[k] + 1])).group)>>]

\* A faulty Duplicate strategy: every group is cut to its first two members
\* (the commands are compared as the strategy compares them).
flag_duplicate_groups_FirstPairOnly(all_entries) ==
    LET n == Len(all_entries)
        command(i) == strip(remove_timestamp_from_entry(all_entries[i + 1]))
        group(i) == SelectSeq(Range0(n), LAMBDA j : command(j) = command(i))
        firsts == SelectSeq(Range0(n),
                            LAMBDA i : /\ command(i) # <<>>
                                       /\ \A j \in 0..(i - 1) : command(j) # command(i)
                                       /\ Len(group(i)) > 1)
    IN  [k \in 1..Len(firsts) |-> SubSeq(group(firsts[k]), 1, 2)]

\* flag_duplicate_groups: yields a list of indices per group, in the order
\* the dict first saw each command.
flag_duplicate_groups(all_entries) ==
    LET n == Len(all_entries)
        command(i) == StrippedCommand(all_entries, i)
        group(i) == SelectSeq(Range0(n), LAMBDA j : command(j) = command(i))
        firsts == SelectSeq(Range0(n),
                            LAMBDA i : /\ command(i) # <<>>
                                       /\ \A j \in 0..(i - 1) : command(j) # command(i)
                                       /\ Len(group(i)) > 1)
    IN  [k \in 1..Len(firsts) |-> group(firsts[k])]

\* ========================================================================
\* CLUSTER SIMILARITY DETECTION
\* ========================================================================

MAX_CLUSTER_LOOKAHEAD == 2

\* A separator of re.split(r"[/ \s]+", ...).
IsSeparator(c) == c = "/" \/ c = " " \/ IsSpace(c)

\* set(re.split(r"[/ \s]+", cmd)): the maximal runs of non-separators, and
\* the empty string when cmd is empty or starts or ends with a separator.
Tokens(cmd) ==
    LET n == Len(cmd)
        runs == { SubSeq(cmd, a, b) : <<a, b>> \in
                    { <<a, b>> \in (1..n) \X (1..n) :
                        /\ a <= b
                        /\ \A k \in a..b : ~IsSeparator(cmd[k])
                        /\ (a = 1 \/ IsSeparator(cmd[a - 1]))
                        /\ (b = n \/ IsSeparator(cmd[b + 1])) } }
    IN  runs \cup (IF n = 0 \/ IsSeparator(cmd[1]) \/ IsSeparator(cmd[n]) THEN {<<>>} ELSE {})

\* A faulty threshold test: similarity above the threshold, not at it
\* (jaccard_similarity > JACCARD_SIMILARITY_THRESHOLD).
JaccardAboveThreshold(n_intersection, n_union) == 2 * n_intersection > n_union

\* jaccard_similarity >= JACCARD_SIMILARITY_THRESHOLD (0.5), for
\* len(intersection) / len(union).
JaccardAtLeastThreshold(n_intersection, n_union) == 2 * n_intersection >= n_union

\* are_commands_similar_jaccard(cmd1, cmd2)
are_commands_similar_jaccard(cmd1, cmd2) ==
    LET tokens1 == Tokens(cmd1)
        tokens2 == Tokens(cmd2)
        intersection == tokens1 \cap tokens2
        union == tokens1 \cup tokens2
    IN  IF union = {} THEN TRUE
        ELSE JaccardAtLeastThreshold(Cardinality(intersection), Cardinality(union))

\* Python's order of two strings: a < b by code points.
StrLess(a, b) ==
    \E k \in 1..(Len(b)) :
        /\ \A m \in 1..(k - 1) : m <= Len(a) /\ a[m] = b[m]
        /\ (k > Len(a) \/ (k - 1 < Len(a) /\ ord(a[k]) < ord(b[k])))

RECURSIVE sorted_strings(_)
\* sorted(tokens) for a set of strings.
sorted_strings(S) ==
    IF S = {} THEN <<>>
    ELSE LET least == CHOOSE x \in S : \A y \in S \ {x} : StrLess(x, y)
         IN  <<least>> \o sorted_strings(S \ {least})

RECURSIVE CommonRun(_, _, _, _, _, _)
\* The length of the common run of a from offset i (below ahi) and b from
\* offset j (below bhi).
CommonRun(a, b, i, j, ahi, bhi) ==
    IF i < ahi /\ j < bhi /\ a[i + 1] = b[j + 1]
    THEN 1 + CommonRun(a, b, i + 1, j + 1, ahi, bhi)
    ELSE 0

\* SequenceMatcher.find_longest_match(alo, ahi, blo, bhi) without junk:
\* <<i, j, k>>, the longest block, the earliest in a and then in b.
find_longest_match(a, b, alo, ahi, blo, bhi) ==
    LET blocks == { <<i, j, CommonRun(a, b, i, j, ahi, bhi)>> :
                        <<i, j>> \in (alo..(ahi - 1)) \X (blo..(bhi - 1)) }
        Better(x, y) == \/ x[3] > y[3]
                        \/ (x[3] = y[3] /\ x[1] < y[1])
                        \/ (x[3] = y[3] /\ x[1] = y[1] /\ x[2] < y[2])
    IN  IF blocks = {} THEN <<alo, blo, 0>>
        ELSE CHOOSE x \in blocks : \A y \in blocks \ {x} : Better(x, y)

RECURSIVE MatchingCount(_, _, _, _, _, _)
\* The total size of SequenceMatcher.get_matching_blocks() within
\* a[alo:ahi], b[blo:bhi].
MatchingCount(a, b, alo, ahi, blo, bhi) ==
    LET m == find_longest_match(a, b, alo, ahi, blo, bhi)
        i == m[1]
        j == m[2]
        k == m[3]
    IN  IF k = 0 THEN 0
        ELSE k + (IF alo < i /\ blo < j THEN MatchingCount(a, b, alo, i, blo, j) ELSE 0)
               + (IF i + k < ahi /\ j + k < bhi
                  THEN MatchingCount(a, b, i + k, ahi, j + k, bhi) ELSE 0)

\* difflib.SequenceMatcher(None, a, b).ratio() >= DIFFLIB_SIMILARITY_THRESHOLD
\* (0.75); the ratio is 2.0 * matches / (len(a) + len(b)), and 1.0 for two
\* empty strings.
RatioAtLeastThreshold(a, b) ==
    LET length == Len(a) + Len(b)
    IN  IF length = 0 THEN TRUE
        ELSE 8 * MatchingCount(a, b, 0, Len(a), 0, Len(b)) >= 3 * length

\* are_commands_similar_difflib(cmd1, cmd2)
are_commands_similar_difflib(cmd1, cmd2) ==
    IF strip(cmd1) = <<>> \/ strip(cmd2) = <<>> THEN FALSE
    ELSE LET tokens1 == Tokens(cmd1)
             tokens2 == Tokens(cmd2)
             sorted_intersection == join(<<" ">>, sorted_strings(tokens1 \cap tokens2))
             sorted_diff1_to_2 == join(<<" ">>, sorted_strings(tokens1 \ tokens2))
             sorted_diff2_to_1 == join(<<" ">>, sorted_strings(tokens2 \ tokens1))
             t1 == strip(sorted_intersection \o <<" ">> \o sorted_diff1_to_2)
             t2 == strip(sorted_intersection \o <<" ">> \o sorted_diff2_to_1)
         IN  IF tokens1 = {} \/ tokens2 = {} THEN FALSE
             ELSE \/ RatioAtLeastThreshold(sorted_intersection, t1)
                  \/ RatioAtLeastThreshold(sorted_intersection, t2)
                  \/ RatioAtLeastThreshold(t1, t2)

\* ========================================================================
\* CLUSTER FLAGGING STRATEGIES
\* ========================================================================

\* commands = [remove_timestamp_from_entry(entry).strip() for entry in all_entries]
StrippedCommands(all_entries) ==
    [k \in 1..Len(all_entries) |-> strip(remove_timestamp_from_entry(all_entries[k]))]

\* Whether commands[j] is similar to a member of the growing cluster.
SimilarToCluster(commands, cluster, j) ==
    \E k \in 1..Len(cluster) :
        /\ commands[cluster[k] + 1] # <<>>
        /\ commands[j + 1] # <<>>
        /\ are_commands_similar_jaccard(commands[cluster[k] + 1], commands[j + 1])

RECURSIVE JaccardGrow_LookaheadThree(_, _, _, _)
\* A faulty inner loop: the lookahead is one position longer
\* ((j - last_successful_match_j) > MAX_CLUSTER_LOOKAHEAD + 1).
JaccardGrow_LookaheadThree(commands, j, cluster, last) ==
    IF j >= Len(commands) \/ (j - last) > MAX_CLUSTER_LOOKAHEAD + 1 THEN cluster
    ELSE IF SimilarToCluster(commands, cluster, j)
         THEN JaccardGrow_LookaheadThree(commands, j + 1,
                          cluster \o [k \in 1..(j - last) |-> last + k], j)
         ELSE JaccardGrow_LookaheadThree(commands, j + 1, cluster, last)

RECURSIVE JaccardGrow(_, _, _, _)
\* The inner for loop of flag_cluster_jaccard_similarity from j, with the
\* cluster grown so far and the last index that matched: the final
\* current_cluster_indices.
JaccardGrow(commands, j, cluster, last) ==
    IF j >= Len(commands) \/ (j - last) > MAX_CLUSTER_LOOKAHEAD THEN cluster
    ELSE IF SimilarToCluster(commands, cluster, j)
         THEN JaccardGrow(commands, j + 1,
                          cluster \o [k \in 1..(j - last) |-> last + k], j)
         ELSE JaccardGrow(commands, j + 1, cluster, last)

RECURSIVE JaccardScan(_, _)
\* The outer while loop of flag_cluster_jaccard_similarity from i: the
\* yielded pairs <<start_index, end_index>>.
JaccardScan(commands, i) ==
    IF i < Len(commands)
    THEN LET cluster == JaccardGrow(commands, i + 1, <<i>>, i)
         IN  IF Len(cluster) > 1
             THEN << <<cluster[1], cluster[Len(cluster)]>> >>
                      \o JaccardScan(commands, cluster[Len(cluster)] + 1)
             ELSE JaccardScan(commands, i + 1)
    ELSE <<>>

\* flag_cluster_jaccard_similarity(all_entries)
flag_cluster_jaccard_similarity(all_entries) ==
    IF Len(all_entries) < 2 THEN <<>>
    ELSE JaccardScan(StrippedCommands(all_entries), 0)

RECURSIVE DifflibRunEnd(_, _)
\* The inner while loop of flag_cluster_difflib_similarity: the end of the
\* run of similar adjacent pairs from j.
DifflibRunEnd(commands, j) ==
    IF /\ j < Len(commands) - 1
       /\ commands[j + 1] # <<>>
       /\ commands[j + 2] # <<>>
       /\ are_commands_similar_difflib(commands[j + 1], commands[j + 2])
    THEN DifflibRunEnd(commands, j + 1)
    ELSE j

RECURSIVE DifflibScan_SkipsAfterRun(_, _)
\* A faulty outer loop: after a run it resumes one entry too far
\* (i = j + 2).
DifflibScan_SkipsAfterRun(commands, i) ==
    IF i < Len(commands) - 1
    THEN LET j == DifflibRunEnd(commands, i)
         IN  IF j > i
             THEN << <<i, j>> >> \o DifflibScan_SkipsAfterRun(commands, j + 2)
             ELSE DifflibScan_SkipsAfterRun(commands, i + 1)
    ELSE <<>>

RECURSIVE DifflibScan(_, _)
\* The outer while loop of flag_cluster_difflib_similarity from i.
DifflibScan(commands, i) ==
    IF i < Len(commands) - 1
    THEN LET j == DifflibRunEnd(commands, i)
         IN  IF j > i
             THEN << <<i, j>> >> \o DifflibScan(commands, j + 1)
             ELSE DifflibScan(commands, i + 1)
    ELSE <<>>

\* flag_cluster_difflib_similarity(all_entries)
flag_cluster_difflib_similarity(all_entries) ==
    IF Len(all_entries) < 2 THEN <<>>
    ELSE DifflibScan(StrippedCommands(all_entries), 0)

\* ========================================================================
\* DATA STRUCTURES (BaseFlag and its subclasses)
\* ========================================================================

\* A flag object.  Every flag carries the fields of the three subclasses; a
\* subclass leaves the fields of the others at 0 / <<>>.  reason_text is
\* the sequence of reason lines the text is made of: joined by "\n" for an
\* Individual flag, by " / " for a Cluster flag.  The shared all_entries,
\* entry_line_nums and max_line_num_width are the model's variables.

\* IndividualFlag(entry_index, reasons): reason_text is each reason as a
\* bullet line.
IndividualFlag(entry_index, reasons) ==
    [kind |-> "Individual", entry_index |-> entry_index, start_index |-> 0,
     end_index |-> 0, entry_indices |-> <<>>, reason_text |-> reasons]

\* ClusterFlag(start_index, end_index, reason_text)
ClusterFlag(start_index, end_index, reason_text) ==
    [kind |-> "Cluster", entry_index |-> 0, start_index |-> start_index,
     end_index |-> end_index, entry_indices |-> <<>>, reason_text |-> reason_text]

\* DuplicateFlag(entry_indices, reason_text)
DuplicateFlag(entry_indices, reason_text) ==
    [kind |-> "Duplicate", entry_index |-> 0, start_index |-> 0,
     end_index |-> 0, entry_indices |-> entry_indices, reason_text |-> reason_text]

\* The elements of a sequence, as a set.
SeqSet(seq) == { seq[k] : k \in 1..Len(seq) }

\* A faulty removal set of a Cluster: the whole range, its last entry
\* included (range(start_index, end_index + 1)).
Cluster_get_indices_to_remove_WholeRange(flag) == flag.start_index .. flag.end_index

\* ClusterFlag.get_indices_to_remove: set(range(start_index, end_index))
Cluster_get_indices_to_remove(flag) == flag.start_index .. (flag.end_index - 1)

\* DuplicateFlag.get_indices_to_remove: set(entry_indices[:-1])
Duplicate_get_indices_to_remove(flag) ==
    SeqSet(SubSeq(flag.entry_indices, 1, Len(flag.entry_indices) - 1))

\* flag.get_indices_to_remove()
get_indices_to_remove(flag) ==
    CASE flag.kind = "Individual" -> {flag.entry_index}
      [] flag.kind = "Cluster" -> Cluster_get_indices_to_remove(flag)
      [] flag.kind = "Duplicate" -> Duplicate_get_indices_to_remove(flag)

\* flag.get_sort_key()
get_sort_key(flag) ==
    CASE flag.kind = "Individual" -> flag.entry_index
      [] flag.kind = "Cluster" -> flag.start_index
      [] flag.kind = "Duplicate" -> flag.entry_indices[1]

\* flag.get_all_covered_indices()
get_all_covered_indices(flag) ==
    CASE flag.kind = "Individual" -> {flag.entry_index}
      [] flag.kind = "Cluster" -> flag.start_index .. flag.end_index
      [] flag.kind = "Duplicate" -> SeqSet(flag.entry_indices)

\* The number of Entry rows FlagWidget.on_mount keeps in entry_widgets: the
\* rows of get_render_entries() that are not context rows.
EntryWidgetCount(flag) ==
    CASE flag.kind = "Individual" -> 1
      [] flag.kind = "Cluster" -> flag.end_index - flag.start_index + 1
      [] flag.kind = "Duplicate" -> Len(flag.entry_indices)

\* ========================================================================
\* PROCESSING & MERGING
\* ========================================================================

RECURSIVE InsertSorted(_, _)
\* The pair x = <<key, value>> put into the sorted sequence of pairs after
\* every pair whose key is not greater: one step of a stable sort.
InsertSorted(sorted, x) ==
    IF sorted = <<>> THEN <<x>>
    ELSE IF x[1] < Head(sorted)[1] THEN <<x>> \o sorted
    ELSE <<Head(sorted)>> \o InsertSorted(Tail(sorted), x)

RECURSIVE SortPairs(_)
\* The pairs <<key, value>> in ascending key order, equal keys in their
\* original order.
SortPairs(pairs) ==
    IF pairs = <<>> THEN <<>>
    ELSE InsertSorted(SortPairs(SubSeq(pairs, 1, Len(pairs) - 1)), pairs[Len(pairs)])

\* sorted(seq, key=Key) and list.sort(key=Key): ascending and stable.
StableSort(seq, Key(_)) ==
    LET sorted == SortPairs([k \in 1..Len(seq) |-> <<Key(seq[k]), seq[k]>>])
    IN  [k \in 1..Len(seq) |-> sorted[k][2]]

\* "needle in haystack" for two reason texts: whether the reason lines of
\* needle appear, together and in order, in haystack.
ReasonTextIn(needle, haystack) ==
    \E p \in 0..(Len(haystack) - Len(needle)) :
        SubSeq(haystack, p + 1, p + Len(needle)) = needle

\* A faulty step 1: the first flag of an entry_index is held and the reasons
\* of the later ones are dropped.
MergeIndividuals_KeepsFirstReason(flags, individual_flags) ==
    LET firsts == SelectSeq([k \in 1..Len(flags) |-> k],
                            LAMBDA k : \A m \in 1..(k - 1) :
                                          flags[m].entry_index # flags[k].entry_index)
    IN  individual_flags \o [k \in 1..Len(firsts) |-> flags[firsts[k]]]

RECURSIVE MergeIndividuals(_, _)
\* Step 1 of merge_flagged_entries for the Individual flags: the values of
\* the dict individual_flags in insertion order, the reasons of a repeated
\* entry_index appended to the flag already held.
MergeIndividuals(flags, individual_flags) ==
    IF flags = <<>> THEN individual_flags
    ELSE LET entry == Head(flags)
         IN  IF \E k \in 1..Len(individual_flags) :
                    individual_flags[k].entry_index = entry.entry_index
             THEN MergeIndividuals(Tail(flags),
                     [k \in 1..Len(individual_flags) |->
                         IF individual_flags[k].entry_index = entry.entry_index
                         THEN [individual_flags[k] EXCEPT
                                  !.reason_text = @ \o entry.reason_text]
                         ELSE individual_flags[k]])
             ELSE MergeIndividuals(Tail(flags), Append(individual_flags, entry))

\* A faulty sweep test: only overlapping clusters merge, touching ones do
\* not (next_cluster.start_index <= current_cluster.end_index).
ClustersTouch_OverlapOnly(current_cluster, next_cluster) ==
    next_cluster.start_index <= current_cluster.end_index

\* Whether the sweep merges next_cluster into current_cluster.
ClustersTouch(current_cluster, next_cluster) ==
    next_cluster.start_index <= current_cluster.end_index + 1

\* A faulty extension: the end of next_cluster is taken as it is
\* (current_cluster.end_index = next_cluster.end_index).
AbsorbCluster_TakesNextEnd(current_cluster, next_cluster) ==
    [current_cluster EXCEPT
        !.end_index = next_cluster.end_index,
        !.reason_text = IF ReasonTextIn(next_cluster.reason_text, @)
                        THEN @ ELSE @ \o next_cluster.reason_text]

\* current_cluster after next_cluster is merged into it.
AbsorbCluster(current_cluster, next_cluster) ==
    [current_cluster EXCEPT
        !.end_index = IF next_cluster.end_index > @ THEN next_cluster.end_index ELSE @,
        !.reason_text = IF ReasonTextIn(next_cluster.reason_text, @)
                        THEN @ ELSE @ \o next_cluster.reason_text]

RECURSIVE SweepClusters(_, _, _)
\* The sweep of step 2 over the sorted clusters that remain.
SweepClusters(rest, current_cluster, merged_clusters) ==
    IF rest = <<>> THEN Append(merged_clusters, current_cluster)
    ELSE IF ClustersTouch(current_cluster, Head(rest))
         THEN SweepClusters(Tail(rest), AbsorbCluster(current_cluster, Head(rest)),
                            merged_clusters)
         ELSE SweepClusters(Tail(rest), Head(rest),
                            Append(merged_clusters, current_cluster))

\* A faulty step 2: the sweep run over the clusters as they come, unsorted.
MergeClusters_Unsorted(cluster_flags) ==
    IF cluster_flags = <<>> THEN <<>>
    ELSE SweepClusters(Tail(cluster_flags), Head(cluster_flags), <<>>)

\* Step 2 of merge_flagged_entries: merged_clusters.
MergeClusters(cluster_flags) ==
    IF cluster_flags = <<>> THEN <<>>
    ELSE LET sorted == StableSort(cluster_flags, LAMBDA flag : flag.start_index)
         IN  SweepClusters(Tail(sorted), Head(sorted), <<>>)

\* A faulty step 3: the indices of Individual flags are not taken out
\* (if i not in cluster_indices).
ValidIndices_IgnoresIndividuals(dup_flag, cluster_indices, individual_indices) ==
    SelectSeq(dup_flag.entry_indices, LAMBDA i : i \notin cluster_indices)

\* A faulty step 3: the indices inside merged clusters are not taken out
\* (if i not in individual_flags).
ValidIndices_IgnoresClusters(dup_flag, cluster_indices, individual_indices) ==
    SelectSeq(dup_flag.entry_indices, LAMBDA i : i \notin individual_indices)

\* The valid_indices of a Duplicate flag in step 3.
ValidIndices(dup_flag, cluster_indices, individual_indices) ==
    SelectSeq(dup_flag.entry_indices,
              LAMBDA i : i \notin cluster_indices /\ i \notin individual_indices)

\* A faulty step 4: final_flags returned as concatenated, not sorted.
SortFlags_Unsorted(final_flags) == final_flags

\* The flags as merge_flagged_entries returns them: final_flags in sort-key
\* order.
SortFlags(final_flags) == StableSort(final_flags, get_sort_key)

\* merge_flagged_entries(flagged_entries)
merge_flagged_entries(flagged_entries) ==
    IF flagged_entries = <<>> THEN <<>>
    ELSE
    LET individual_flags ==
            MergeIndividuals(SelectSeq(flagged_entries,
                                       LAMBDA f : f.kind = "Individual"), <<>>)
        cluster_flags == SelectSeq(flagged_entries, LAMBDA f : f.kind = "Cluster")
        duplicate_flags == SelectSeq(flagged_entries, LAMBDA f : f.kind = "Duplicate")
        merged_clusters == MergeClusters(cluster_flags)
        cluster_indices ==
            UNION { get_all_covered_indices(merged_clusters[k]) :
                        k \in 1..Len(merged_clusters) }
        individual_indices ==
            { individual_flags[k].entry_index : k \in 1..Len(individual_flags) }
        kept_individuals ==
            SelectSeq(individual_flags, LAMBDA f : f.entry_index \notin cluster_indices)
        shrunk_duplicates ==
            [k \in 1..Len(duplicate_flags) |->
                [duplicate_flags[k] EXCEPT
                    !.entry_indices = ValidIndices(duplicate_flags[k], cluster_indices,
                                                   individual_indices)]]
        kept_duplicates ==
            SelectSeq(shrunk_duplicates, LAMBDA f : Len(f.entry_indices) > 1)
    IN  SortFlags(merged_clusters \o kept_individuals \o kept_duplicates)

\* A faulty filter: a Duplicate is kept as soon as one unprotected index is
\* left (len(non_hist_keep_indices) > 0).
FilterFlag_KeepsLoneDuplicate(flag, all_entries) ==
    CASE flag.kind = "Individual" ->
            IF ~has_hist_keep(all_entries, flag.entry_index) THEN <<flag>> ELSE <<>>
      [] flag.kind = "Cluster" ->
            LET indices_to_remove == flag.start_index .. (flag.end_index - 1)
                hist_keep_indices ==
                    { i \in indices_to_remove : has_hist_keep(all_entries, i) }
            IN  IF hist_keep_indices = {} THEN <<flag>>
                ELSE IF hist_keep_indices = indices_to_remove THEN <<>>
                ELSE <<flag>>
      [] flag.kind = "Duplicate" ->
            LET non_hist_keep_indices ==
                    SelectSeq(flag.entry_indices,
                              LAMBDA i : ~has_hist_keep(all_entries, i))
            IN  IF Len(non_hist_keep_indices) > 0
                THEN << [flag EXCEPT !.entry_indices = non_hist_keep_indices] >>
                ELSE <<>>

\* A faulty filter: a Cluster is dropped as soon as one index of its removal
\* range is protected.
FilterFlag_DropsMixedCluster(flag, all_entries) ==
    CASE flag.kind = "Individual" ->
            IF ~has_hist_keep(all_entries, flag.entry_index) THEN <<flag>> ELSE <<>>
      [] flag.kind = "Cluster" ->
            LET indices_to_remove == flag.start_index .. (flag.end_index - 1)
                hist_keep_indices ==
                    { i \in indices_to_remove : has_hist_keep(all_entries, i) }
            IN  IF hist_keep_indices = {} THEN <<flag>> ELSE <<>>
      [] flag.kind = "Duplicate" ->
            LET non_hist_keep_indices ==
                    SelectSeq(flag.entry_indices,
                              LAMBDA i : ~has_hist_keep(all_entries, i))
            IN  IF Len(non_hist_keep_indices) > 1
                THEN << [flag EXCEPT !.entry_indices = non_hist_keep_indices] >>
                ELSE <<>>

\* What filter_flags_by_hist_keep appends to filtered_flags for one flag:
\* the flag, the flag with a shorter index list, or nothing.
FilterFlag(flag, all_entries) ==
    CASE flag.kind = "Individual" ->
            IF ~has_hist_keep(all_entries, flag.entry_index) THEN <<flag>> ELSE <<>>
      [] flag.kind = "Cluster" ->
            LET indices_to_remove == flag.start_index .. (flag.end_index - 1)
                hist_keep_indices ==
                    { i \in indices_to_remove : has_hist_keep(all_entries, i) }
            IN  IF hist_keep_indices = {} THEN <<flag>>
                ELSE IF hist_keep_indices = indices_to_remove THEN <<>>
                ELSE <<flag>>
      [] flag.kind = "Duplicate" ->
            LET non_hist_keep_indices ==
                    SelectSeq(flag.entry_indices,
                              LAMBDA i : ~has_hist_keep(all_entries, i))
            IN  IF Len(non_hist_keep_indices) > 1
                THEN << [flag EXCEPT !.entry_indices = non_hist_keep_indices] >>
                ELSE <<>>

\* A faulty filter: the Duplicate flags are handled in a second pass and come
\* after the other flags.
filter_flags_by_hist_keep_DuplicatesLast(flagged_entries, all_entries) ==
    LET others == SelectSeq(flagged_entries, LAMBDA f : f.kind # "Duplicate")
        duplicates == SelectSeq(flagged_entries, LAMBDA f : f.kind = "Duplicate")
    IN  Flatten([k \in 1..Len(others) |-> FilterFlag(others[k], all_entries)])
            \o Flatten([k \in 1..Len(duplicates) |-> FilterFlag(duplicates[k], all_entries)])

\* filter_flags_by_hist_keep(flagged_entries, all_entries)
filter_flags_by_hist_keep(flagged_entries, all_entries) ==
    Flatten([k \in 1..Len(flagged_entries) |-> FilterFlag(flagged_entries[k], all_entries)])

\* A faulty final check: the indices are returned as collected.
SafetyFilter_Skipped(indices_to_remove, all_entries) == indices_to_remove

\* The final safety check of calculate_indices_to_remove over the union of
\* the approved flags' indices.
SafetyFilter(indices_to_remove, all_entries) ==
    { index \in indices_to_remove :
        IF index < Len(all_entries)
        THEN ~HistKeepSearch(remove_timestamp_from_entry(all_entries[index + 1]))
        ELSE TRUE }

\* calculate_indices_to_remove(approved_flags, all_entries)
calculate_indices_to_remove(approved_flags, all_entries) ==
    SafetyFilter(UNION { get_indices_to_remove(approved_flags[k]) :
                            k \in 1..Len(approved_flags) },
                 all_entries)

\* ========================================================================
\* FILE I/O
\* ========================================================================

RECURSIVE splitlines(_)
\* str.splitlines() for a text whose only line boundary is "\n".
splitlines(text) ==
    IF text = <<>> THEN <<>>
    ELSE IF \E k \in 1..Len(text) : text[k] = "\n"
         THEN LET p == CHOOSE k \in 1..Len(text) :
                           text[k] = "\n" /\ \A m \in 1..(k - 1) : text[m] # "\n"
              IN  <<SubSeq(text, 1, p - 1)>> \o splitlines(SubSeq(text, p + 1, Len(text)))
         ELSE <<text>>

\* The text both writes of backup_and_write_history produce:
\* "\n".join(lines) + "\n"
FileText(lines) == join(<<"\n">>, lines) \o <<"\n">>

\* ========================================================================
\* MAIN: COLLECT
\* ========================================================================

JACCARD_REASON == <<Reason("Consecutive similar entries (Jaccard)", <<>>)>>

DIFFLIB_REASON == <<Reason("Consecutive similar entries (difflib)", <<>>)>>

DUPLICATE_REASON == <<Reason("Duplicate command; keeping the last instance", <<>>)>>

\* The flags main wraps around the results of one individual strategy.
IndividualFlags(results) ==
    [k \in 1..Len(results) |-> IndividualFlag(results[k][1], <<results[k][2]>>)]

\* The flags main wraps around the results of one cluster strategy.
ClusterFlags(results, reason) ==
    [k \in 1..Len(results) |-> ClusterFlag(results[k][1], results[k][2], reason)]

\* The flags main wraps around the results of the duplicate strategy.
DuplicateFlags(results, reason) ==
    [k \in 1..Len(results) |-> DuplicateFlag(results[k], reason)]

\* PHASE 1 of main: raw_flagged_entries, the strategies of CONFIG run in
\* the order of pipeline_steps.
CollectFlags(entries) ==
    IndividualFlags(flag_individual_multiline(entries))
        \o IndividualFlags(flag_individual_empty(entries))
        \o IndividualFlags(flag_individual_blacklist(entries))
        \o ClusterFlags(flag_cluster_jaccard_similarity(entries), JACCARD_REASON)
        \o ClusterFlags(flag_cluster_difflib_similarity(entries), DIFFLIB_REASON)
        \o DuplicateFlags(flag_duplicate_groups(entries), DUPLICATE_REASON)

\* ========================================================================
\* STATE
\* ========================================================================

VARIABLES
    pc,                     \* where main (or the function under check) stands
    history_readable,       \* whether read_text of the history file succeeds
    history_file,           \* the text of the history file on disk
    backup_files,           \* the texts of the .zsh_hist.clean.* files written
    io_log,                 \* the file operations attempted so far, in order
    original_lines,         \* main: original_lines
    all_entries,            \* main: all_entries
    entry_line_nums,        \* main: entry_line_nums
    raw_flagged_entries,    \* main: raw_flagged_entries
    merged_flagged_entries, \* main: merged_flagged_entries
    final_flagged_entries,  \* main: final_flagged_entries (the app's panels)
    flag_states,            \* HistoryCleanApp.flag_states, in panel order
    mode,                   \* HistoryCleanApp.mode
    focused,                \* HistoryCleanApp.focused: a panel or an Entry row
    current_flag,           \* HistoryCleanApp.current_flag: a panel number, 0 for None
    current_entries,        \* HistoryCleanApp.current_entries
    decision,               \* how the app exited: "approve", "reject", "quit"
    approved_flags,         \* main: approved_flags
    indices_to_remove,      \* main: indices_to_remove
    cleaned_lines,          \* main: cleaned_lines
    outcome,                \* the message main ends with
    exit_code,              \* the exit status of the process
    removed_count           \* main: removed_count, 0 until it is computed

vars == << pc, history_readable, history_file, backup_files, io_log, original_lines,
           all_entries, entry_line_nums, raw_flagged_entries, merged_flagged_entries,
           final_flagged_entries, flag_states, mode, focused, current_flag,
           current_entries, decision, approved_flags, indices_to_remove,
           cleaned_lines, outcome, exit_code, removed_count >>

\* The variables of the review app.
ui_vars == << flag_states, mode, focused, current_flag, current_entries >>

\* The variables main computes before the review.
analysis_vars == << original_lines, all_entries, entry_line_nums, raw_flagged_entries,
                    merged_flagged_entries, final_flagged_entries >>

\* The files on disk and the operations on them.
disk_vars == << history_readable, history_file, backup_files, io_log >>

\* ========================================================================
\* INPUTS
\* ========================================================================

\* The longest history file, in lines, of those enumerated in full.
MaxLines == 2

\* A timestamp header, ": <epoch>:<duration>;".
Header == <<":", " ", "1", "7", "0", "0", "0", "0", "0", "0", "0", "0", ":", "0", ";">>

KeepMarker == <<"#", " ", "H", "I", "S", "T", ":", "K", "E", "E", "P">>

\* The raw lines history files are made of.
Line_ls == Header \o <<"l", "s">>

Line_ls_l == Header \o <<"l", "s", " ", "-", "l">>

Line_bare_ls == <<"l", "s">>

Line_no_command == Header

Line_ls_keep == Header \o <<"l", "s", " ">> \o KeepMarker

Line_version == Header \o <<"g", "i", "t", " ", "-", "-", "v", "e", "r", "s", "i", "o", "n">>

Line_x == Header \o <<"x">>

Line_pwd == Header \o <<"p", "w", "d">>

Line_blank == <<>>

Line_cd == Header \o <<"c", "d">>

Line_id == Header \o <<"i", "d">>

LinePool ==
    { Line_ls, Line_ls_l, Line_bare_ls, Line_no_command, Line_ls_keep,
      Line_version, Line_x, Line_pwd, Line_blank }

\* Every sequence over S of length at most n.
BoundedSeq(S, n) == UNION { [1..k -> S] : k \in 0..n }

\* Longer histories: a cluster with a protected entry inside, a duplicate
\* group spread too far apart to cluster, and a duplicate group one member
\* of which lies inside a cluster, among others; the last one has a
\* duplicate group whose last member ends a cluster the first is too far
\* from, and a protected duplicate group ahead of other flags.
ScenarioFiles ==
    { << Line_ls, Line_ls_keep, Line_ls >>,
      << Line_ls, Line_pwd, Line_x, Line_ls, Line_version >>,
      << Line_ls, Line_ls_l, Line_pwd, Line_x, Line_ls, Line_cd, Line_id, Line_ls >>,
      << Line_bare_ls, Line_pwd, Line_bare_ls, Line_blank, Line_ls >>,
      << Line_ls_l, Line_ls, Line_ls_l, Line_pwd >>,
      << Line_ls, Line_pwd, Line_cd, Line_ls, Line_ls >>,
      << Line_ls_keep, Line_pwd, Line_pwd, Line_ls_keep, Line_version >> }

\* The history files main is run on.
HistoryFiles == BoundedSeq(LinePool, MaxLines) \cup ScenarioFiles

\* ========================================================================
\* MAIN
\* ========================================================================

\* A reference to a widget of the app: panel p itself (entry 0), or Entry
\* row e of panel p.  Panel 0 is no widget.
FlagWidget(p) == [panel |-> p, entry |-> 0]

EntryWidget(p, e) == [panel |-> p, entry |-> e]

NoWidget == [panel |-> 0, entry |-> 0]

\* isinstance(widget, FlagWidget)
IsFlagWidget(widget) == widget.panel > 0 /\ widget.entry = 0

\* isinstance(widget, Entry)
IsEntry(widget) == widget.panel > 0 /\ widget.entry > 0

\* panel.entry_widgets of panel p.
entry_widgets(flags, p) == [e \in 1..EntryWidgetCount(flags[p]) |-> EntryWidget(p, e)]

\* list.index(x)
IndexOf(seq, x) == (CHOOSE k \in 1..Len(seq) : seq[k] = x /\ \A m \in 1..(k - 1) : seq[m] # x) - 1

\* The state before main runs, but for the files on disk and the values a
\* specification draws as inputs.
Idle ==
    /\ io_log = <<>>
    /\ backup_files = <<>>
    /\ original_lines = <<>>
    /\ entry_line_nums = <<>>
    /\ merged_flagged_entries = <<>>
    /\ final_flagged_entries = <<>>
    /\ flag_states = <<>>
    /\ mode = "flag"
    /\ focused = NoWidget
    /\ current_flag = 0
    /\ current_entries = <<>>
    /\ decision = "none"
    /\ indices_to_remove = {}
    /\ cleaned_lines = <<>>
    /\ outcome = "running"
    /\ exit_code = 0
    /\ removed_count = 0

Init ==
    /\ pc = "start"
    /\ history_readable \in BOOLEAN
    /\ \E lines \in HistoryFiles :
          history_file = IF lines = <<>> THEN <<>> ELSE FileText(lines)
    /\ all_entries = <<>>
    /\ raw_flagged_entries = <<>>
    /\ approved_flags = <<>>
    /\ Idle

\* read_history_file, and main's exit when it returns None.
ReadHistory ==
    /\ pc = "start"
    /\ io_log' = Append(io_log, "read")
    /\ IF history_readable
       THEN /\ original_lines' = splitlines(history_file)
            /\ pc' = "parse"
            /\ UNCHANGED << outcome, exit_code, removed_count >>
       ELSE /\ outcome' = "read error"
            /\ exit_code' = 1
            /\ UNCHANGED removed_count
            /\ pc' = "done"
            /\ UNCHANGED original_lines
    /\ UNCHANGED << history_readable, history_file, backup_files, all_entries,
                    entry_line_nums, raw_flagged_entries, merged_flagged_entries,
                    final_flagged_entries, ui_vars, decision, approved_flags,
                    indices_to_remove, cleaned_lines >>

\* all_entries and entry_line_nums from parse_history_entries.
ParseEntries ==
    /\ pc = "parse"
    /\ LET all_entries_with_lines == parse_history_entries(original_lines)
       IN  /\ all_entries' = [k \in 1..Len(all_entries_with_lines) |->
                                 all_entries_with_lines[k][2]]
           /\ entry_line_nums' = [k \in 1..Len(all_entries_with_lines) |->
                                     all_entries_with_lines[k][1]]
    /\ pc' = "collect"
    /\ UNCHANGED << disk_vars, original_lines, raw_flagged_entries,
                    merged_flagged_entries, final_flagged_entries, ui_vars, decision,
                    approved_flags, indices_to_remove, cleaned_lines, outcome, exit_code, removed_count >>

\* PHASE 1: COLLECT
Collect ==
    /\ pc = "collect"
    /\ raw_flagged_entries' = CollectFlags(all_entries)
    /\ pc' = "merge"
    /\ UNCHANGED << disk_vars, original_lines, all_entries, entry_line_nums,
                    merged_flagged_entries, final_flagged_entries, ui_vars, decision,
                    approved_flags, indices_to_remove, cleaned_lines, outcome, exit_code, removed_count >>

\* PHASE 2: MERGE
Merge ==
    /\ pc = "merge"
    /\ merged_flagged_entries' = merge_flagged_entries(raw_flagged_entries)
    /\ pc' = "filter"
    /\ UNCHANGED << disk_vars, original_lines, all_entries, entry_line_nums,
                    raw_flagged_entries, final_flagged_entries, ui_vars, decision,
                    approved_flags, indices_to_remove, cleaned_lines, outcome, exit_code, removed_count >>

\* PHASE 2: FILTER, and main's return when nothing is left to review.
Filter ==
    /\ pc = "filter"
    /\ final_flagged_entries' = filter_flags_by_hist_keep(merged_flagged_entries, all_entries)
    /\ IF final_flagged_entries' = <<>>
       THEN /\ outcome' = "No entries needed cleaning. History file unchanged."
            /\ pc' = "done"
       ELSE /\ pc' = "confirm"
            /\ UNCHANGED outcome
    /\ UNCHANGED << disk_vars, original_lines, all_entries, entry_line_nums,
                    raw_flagged_entries, merged_flagged_entries, ui_vars, decision,
                    approved_flags, indices_to_remove, cleaned_lines, exit_code, removed_count >>

\* HistoryCleanApp.__init__, compose and on_mount: every flag enabled, one
\* panel per flag, the first panel focused.
StartReview ==
    /\ pc = "confirm"
    /\ flag_states' = [k \in 1..Len(final_flagged_entries) |-> TRUE]
    /\ mode' = "flag"
    /\ current_flag' = 0
    /\ current_entries' = <<>>
    /\ focused' = IF final_flagged_entries # <<>> THEN FlagWidget(1) ELSE NoWidget
    /\ pc' = "review"
    /\ UNCHANGED << disk_vars, analysis_vars, decision, approved_flags,
                    indices_to_remove, cleaned_lines, outcome, exit_code, removed_count >>

\* get_current_panel_index()
get_current_panel_index == IF IsFlagWidget(focused) THEN focused.panel - 1 ELSE 0

\* What a focus action leaves alone.
FocusFrame ==
    UNCHANGED << pc, disk_vars, analysis_vars, flag_states, mode, current_flag,
                 current_entries, decision, approved_flags, indices_to_remove,
                 cleaned_lines, outcome, exit_code, removed_count >>

\* action_focus_previous
action_focus_previous ==
    /\ pc = "review"
    /\ IF final_flagged_entries = <<>> THEN UNCHANGED focused
       ELSE IF mode = "flag"
            THEN LET next_idx == (get_current_panel_index - 1) % Len(final_flagged_entries)
                 IN  focused' = FlagWidget(next_idx + 1)
       ELSE IF mode = "entry" /\ current_entries # <<>> /\ IsEntry(focused)
            THEN LET current_idx == IndexOf(current_entries, focused)
                 IN  IF current_idx > 0
                     THEN focused' = current_entries[current_idx]
                     ELSE UNCHANGED focused
       ELSE UNCHANGED focused
    /\ FocusFrame

\* action_focus_next
action_focus_next ==
    /\ pc = "review"
    /\ IF final_flagged_entries = <<>> THEN UNCHANGED focused
       ELSE IF mode = "flag"
            THEN LET next_idx == (get_current_panel_index + 1) % Len(final_flagged_entries)
                 IN  focused' = FlagWidget(next_idx + 1)
       ELSE IF mode = "entry" /\ current_entries # <<>> /\ IsEntry(focused)
            THEN LET current_idx == IndexOf(current_entries, focused)
                 IN  IF current_idx < Len(current_entries) - 1
                     THEN focused' = current_entries[current_idx + 2]
                     ELSE UNCHANGED focused
       ELSE UNCHANGED focused
    /\ FocusFrame

\* The widget action_toggle_panel acts on: the focused widget in flag mode,
\* current_flag in entry mode, none otherwise.
ToggleTarget ==
    IF mode = "flag" THEN focused
    ELSE IF mode = "entry" /\ current_flag # 0 THEN FlagWidget(current_flag)
    ELSE NoWidget

\* A faulty toggle: the state of every flag is flipped.
ToggledStates_FlipsAll(states, p) == [k \in DOMAIN states |-> ~states[k]]

\* flag_states after the flag of panel p is toggled.
ToggledStates(states, p) == [states EXCEPT ![p] = ~@]

\* action_toggle_panel
action_toggle_panel ==
    /\ pc = "review"
    /\ IF IsFlagWidget(ToggleTarget)
       THEN flag_states' = ToggledStates(flag_states, ToggleTarget.panel)
       ELSE UNCHANGED flag_states
    /\ UNCHANGED << pc, disk_vars, analysis_vars, mode, focused, current_flag,
                    current_entries, decision, approved_flags, indices_to_remove,
                    cleaned_lines, outcome, exit_code, removed_count >>

\* action_enter_entry_mode
action_enter_entry_mode ==
    /\ pc = "review"
    /\ IF mode = "flag" /\ IsFlagWidget(focused)
       THEN /\ mode' = "entry"
            /\ current_flag' = focused.panel
            /\ current_entries' = entry_widgets(final_flagged_entries, focused.panel)
            /\ focused' = IF current_entries' # <<>> THEN current_entries'[1] ELSE focused
       ELSE UNCHANGED << mode, current_flag, current_entries, focused >>
    /\ UNCHANGED << pc, disk_vars, analysis_vars, flag_states, decision, approved_flags,
                    indices_to_remove, cleaned_lines, outcome, exit_code, removed_count >>

\* action_exit_entry_mode
action_exit_entry_mode ==
    /\ pc = "review"
    /\ IF mode = "entry" /\ current_flag # 0
       THEN /\ mode' = "flag"
            /\ focused' = FlagWidget(current_flag)
            /\ current_entries' = <<>>
       ELSE UNCHANGED << mode, focused, current_entries >>
    /\ UNCHANGED << pc, disk_vars, analysis_vars, flag_states, current_flag, decision,
                    approved_flags, indices_to_remove, cleaned_lines, outcome, exit_code, removed_count >>

\* A faulty approve: every flag is handed on, whatever its toggle state.
ApproveResult_IgnoresToggles(flags, states) == flags

\* A faulty reject: the enabled flags are handed on as on approve.
RejectResult_KeepsEnabled(flags, states) ==
    LET enabled == SelectSeq([k \in 1..Len(flags) |-> k], LAMBDA k : states[k])
    IN  [k \in 1..Len(enabled) |-> flags[enabled[k]]]

\* The list action_approve exits with:
\* [flag for flag, enabled in self.flag_states.items() if enabled]
ApproveResult(flags, states) ==
    LET enabled == SelectSeq([k \in 1..Len(flags) |-> k], LAMBDA k : states[k])
    IN  [k \in 1..Len(enabled) |-> flags[enabled[k]]]

\* The list action_reject exits with.
RejectResult(flags, states) == <<>>

\* What leaving the app leaves alone.
ExitFrame ==
    UNCHANGED << disk_vars, analysis_vars, ui_vars, indices_to_remove, cleaned_lines,
                 outcome, exit_code, removed_count >>

\* action_approve, and approved_flags = app.run() or []
action_approve ==
    /\ pc = "review"
    /\ decision' = "approve"
    /\ approved_flags' = ApproveResult(final_flagged_entries, flag_states)
    /\ pc' = "apply"
    /\ ExitFrame

\* action_reject, and approved_flags = app.run() or []
action_reject ==
    /\ pc = "review"
    /\ decision' = "reject"
    /\ approved_flags' = RejectResult(final_flagged_entries, flag_states)
    /\ pc' = "apply"
    /\ ExitFrame

\* The app left without a result (run() returns None):
\* approved_flags = app.run() or []
AppQuit ==
    /\ pc = "review"
    /\ decision' = "quit"
    /\ approved_flags' = <<>>
    /\ pc' = "apply"
    /\ ExitFrame

\* A faulty rebuild: the membership test inverted (if i in indices_to_remove).
FinalCleanedEntries_KeepsRemoved(entries, removed) ==
    LET kept == SelectSeq(Range0(Len(entries)), LAMBDA i : i \in removed)
    IN  [k \in 1..Len(kept) |-> entries[kept[k] + 1]]

\* final_cleaned_entries: the entries whose index is not in the removal set.
FinalCleanedEntries(entries, removed) ==
    LET kept == SelectSeq(Range0(Len(entries)), LAMBDA i : i \notin removed)
    IN  [k \in 1..Len(kept) |-> entries[kept[k] + 1]]

\* PHASE 3: APPLY, up to the call of backup_and_write_history.
Apply ==
    /\ pc = "apply"
    /\ IF approved_flags = <<>>
       THEN /\ outcome' = "No changes applied. History file unchanged."
            /\ pc' = "done"
            /\ UNCHANGED << indices_to_remove, cleaned_lines >>
       ELSE /\ indices_to_remove' = calculate_indices_to_remove(approved_flags, all_entries)
            /\ LET final_cleaned_entries == FinalCleanedEntries(all_entries, indices_to_remove')
               IN  IF Len(all_entries) = Len(final_cleaned_entries)
                   THEN /\ outcome' = "Approval given, but no entries were ultimately removed. History file unchanged."
                        /\ pc' = "done"
                        /\ UNCHANGED cleaned_lines
                   ELSE /\ cleaned_lines' = Flatten(final_cleaned_entries)
                        /\ pc' = "backup"
                        /\ UNCHANGED outcome
    /\ UNCHANGED << disk_vars, analysis_vars, ui_vars, decision, approved_flags, exit_code, removed_count >>

\* A faulty backup step: an IOError on the backup file exits with status 1
\* before the history file is touched.
WriteBackup_FailureAborts ==
    /\ pc = "backup"
    /\ io_log' = Append(io_log, "write backup")
    /\ \/ /\ backup_files' = Append(backup_files, FileText(original_lines))
          /\ pc' = "write"
          /\ UNCHANGED << outcome, exit_code >>
       \/ /\ \/ backup_files' = Append(backup_files, <<>>)
             \/ UNCHANGED backup_files
          /\ outcome' = "Error writing to backup file"
          /\ exit_code' = 1
          /\ pc' = "done"
    /\ UNCHANGED << history_readable, history_file, analysis_vars, ui_vars, decision,
                    approved_flags, indices_to_remove, cleaned_lines, removed_count >>

\* backup_and_write_history, the backup: the file is written; or it cannot
\* be opened; or it is opened and the write fails, which leaves it empty.
\* An IOError here is reported and the function goes on.
WriteBackup ==
    /\ pc = "backup"
    /\ io_log' = Append(io_log, "write backup")
    /\ \/ backup_files' = Append(backup_files, FileText(original_lines))
       \/ backup_files' = Append(backup_files, <<>>)
       \/ UNCHANGED backup_files
    /\ pc' = "write"
    /\ UNCHANGED << history_readable, history_file, analysis_vars, ui_vars, decision,
                    approved_flags, indices_to_remove, cleaned_lines, outcome, exit_code, removed_count >>

\* A faulty order: the history file is written first, in place of the
\* backup.
WriteHistory_BeforeBackup ==
    /\ pc \in {"backup", "write"}
    /\ io_log' = Append(io_log, "write history")
    /\ \/ /\ history_file' = FileText(cleaned_lines)
          /\ removed_count' = Len(all_entries)
                                 - Len(FinalCleanedEntries(all_entries, indices_to_remove))
          /\ outcome' = "Cleaned history"
          /\ UNCHANGED exit_code
       \/ /\ history_file' \in {history_file, <<>>}
          /\ outcome' = "Error writing to history file"
          /\ exit_code' = 1
          /\ UNCHANGED removed_count
    /\ pc' = "done"
    /\ UNCHANGED << history_readable, backup_files, analysis_vars, ui_vars, decision,
                    approved_flags, indices_to_remove, cleaned_lines >>

\* backup_and_write_history, the history file: it is written; or it cannot
\* be opened and stays as it was; or it is opened, which truncates it, and
\* the write fails.  An IOError exits with status 1.
WriteHistory ==
    /\ pc = "write"
    /\ io_log' = Append(io_log, "write history")
    /\ \/ /\ history_file' = FileText(cleaned_lines)
          /\ removed_count' = Len(all_entries)
                                 - Len(FinalCleanedEntries(all_entries, indices_to_remove))
          /\ outcome' = "Cleaned history"
          /\ UNCHANGED exit_code
       \/ /\ history_file' \in {history_file, <<>>}
          /\ outcome' = "Error writing to history file"
          /\ exit_code' = 1
          /\ UNCHANGED removed_count
    /\ pc' = "done"
    /\ UNCHANGED << history_readable, backup_files, analysis_vars, ui_vars, decision,
                    approved_flags, indices_to_remove, cleaned_lines >>

Next ==
    \/ ReadHistory
    \/ ParseEntries
    \/ Collect
    \/ Merge
    \/ Filter
    \/ StartReview
    \/ action_focus_previous
    \/ action_focus_next
    \/ action_toggle_panel
    \/ action_enter_entry_mode
    \/ action_exit_entry_mode
    \/ action_approve
    \/ action_reject
    \/ AppQuit
    \/ Apply
    \/ WriteBackup
    \/ WriteHistory

Spec == Init /\ [][Next]_vars

\* ========================================================================
\* merge_flagged_entries ON ITS OWN
\* ========================================================================

\* The longest raw flag list merge_flagged_entries is run on.
MaxRaw == 3

MULTILINE_REASON == Reason("It is a multi-line entry.", <<>>)

EMPTY_REASON == Reason("It is an empty entry.", <<>>)

VERSION_REASON == Reason("Matches", <<"-", "-", "v", "e", "r", "s", "i", "o", "n">>)

\* Raw flags as main wraps them around the strategies' results.
RawFlagPool ==
    { IndividualFlag(1, <<MULTILINE_REASON>>),
      IndividualFlag(1, <<EMPTY_REASON>>),
      IndividualFlag(4, <<VERSION_REASON>>),
      IndividualFlag(6, <<EMPTY_REASON>>),
      ClusterFlag(0, 2, JACCARD_REASON),
      ClusterFlag(3, 4, JACCARD_REASON),
      ClusterFlag(0, 1, DIFFLIB_REASON),
      ClusterFlag(1, 3, DIFFLIB_REASON),
      ClusterFlag(5, 6, DIFFLIB_REASON),
      DuplicateFlag(<<0, 4>>, DUPLICATE_REASON),
      DuplicateFlag(<<1, 3>>, DUPLICATE_REASON),
      DuplicateFlag(<<2, 5, 6>>, DUPLICATE_REASON) }

\* A raw list the strategies can produce: no strategy yields an entry, a
\* range or a group twice, the clusters of one strategy are disjoint, and so
\* are the groups of the Duplicate strategy.
WellFormedRaw(raw) ==
    \A a, b \in 1..Len(raw) :
        a < b =>
            /\ raw[a] # raw[b]
            /\ (raw[a].kind = "Cluster" /\ raw[b].kind = "Cluster"
                    /\ raw[a].reason_text = raw[b].reason_text)
                 => get_all_covered_indices(raw[a]) \cap get_all_covered_indices(raw[b]) = {}
            /\ (raw[a].kind = "Duplicate" /\ raw[b].kind = "Duplicate")
                 => SeqSet(raw[a].entry_indices) \cap SeqSet(raw[b].entry_indices) = {}

RawLists == { raw \in BoundedSeq(RawFlagPool, MaxRaw) : WellFormedRaw(raw) }

InitMerge ==
    /\ pc = "merge"
    /\ history_readable = TRUE
    /\ history_file = <<>>
    /\ all_entries = <<>>
    /\ approved_flags = <<>>
    /\ Idle
    /\ \E raw \in RawLists : raw_flagged_entries = raw

SpecMerge == InitMerge /\ [][Merge]_vars

\* ========================================================================
\* calculate_indices_to_remove ON ITS OWN
\* ========================================================================

\* The longest entry list calculate_indices_to_remove is run on.
MaxEntries == 3

\* The longest approved flag list calculate_indices_to_remove is run on.
MaxApproved == 2

Entry_ls == << Line_ls >>

Entry_ls_keep == << Line_ls_keep >>

\* The marker in lower case and without a space, on a continuation line.
Entry_keep_continued == << Line_pwd, <<"#", "h", "i", "s", "t", ":", "k", "e", "e", "p">> >>

RemoveEntryPool == { Entry_ls, Entry_ls_keep, Entry_keep_continued }

\* Flags of every kind, over indices inside and outside the entry lists.
ApprovedFlagPool ==
    { IndividualFlag(0, <<EMPTY_REASON>>),
      IndividualFlag(2, <<EMPTY_REASON>>),
      IndividualFlag(3, <<EMPTY_REASON>>),
      ClusterFlag(0, 2, JACCARD_REASON),
      ClusterFlag(1, 3, DIFFLIB_REASON),
      DuplicateFlag(<<0, 2>>, DUPLICATE_REASON),
      DuplicateFlag(<<0, 1, 3>>, DUPLICATE_REASON) }

InitRemove ==
    /\ pc = "apply"
    /\ history_readable = TRUE
    /\ history_file = <<>>
    /\ raw_flagged_entries = <<>>
    /\ Idle
    /\ \E entries \in BoundedSeq(RemoveEntryPool, MaxEntries) : all_entries = entries
    /\ \E flags \in BoundedSeq(ApprovedFlagPool, MaxApproved) : approved_flags = flags

SpecRemove == InitRemove /\ [][Apply]_vars

\* ========================================================================
\* flag_duplicate_groups ON ITS OWN
\* ========================================================================

\* The longest entry list the Duplicate strategy is run on.
MaxDedupEntries == 4

\* The command ls under another timestamp.
Entry_ls_later == << <<":", " ", "1", "7", "0", "0", "0", "0", "0", "0", "6", "0", ":", "0", ";", "l", "s">> >>

\* The command ls with whitespace around it.
Entry_ls_spaced == << Header \o <<" ", "l", "s", " ">> >>

Entry_pwd == << Line_pwd >>

\* The command LS, which differs from ls in case only.
Entry_LS == << Header \o <<"L", "S">> >>

Entry_no_command == << Line_no_command >>

DedupEntryPool ==
    { Entry_ls, Entry_ls_later, Entry_ls_spaced, Entry_LS, Entry_pwd, Entry_no_command }

InitDedup ==
    /\ pc = "dedup"
    /\ history_readable = TRUE
    /\ history_file = <<>>
    /\ raw_flagged_entries = <<>>
    /\ approved_flags = <<>>
    /\ Idle
    /\ \E entries \in BoundedSeq(DedupEntryPool, MaxDedupEntries) : all_entries = entries

\* What a step on the entry list alone leaves alone.
DedupFrame ==
    UNCHANGED << disk_vars, original_lines, entry_line_nums, merged_flagged_entries,
                 final_flagged_entries, ui_vars, decision, approved_flags, cleaned_lines,
                 outcome, exit_code, removed_count >>

\* The Duplicate strategy run on the entry list.
DedupRun ==
    /\ pc = "dedup"
    /\ raw_flagged_entries' = DuplicateFlags(flag_duplicate_groups(all_entries), DUPLICATE_REASON)
    /\ pc' = "collapse"
    /\ UNCHANGED << all_entries, indices_to_remove >>
    /\ DedupFrame

\* Every group collapsed to its last member: the removal sets of the
\* Duplicate flags taken out of the entry list.
Collapse ==
    /\ pc = "collapse"
    /\ indices_to_remove' = UNION { Duplicate_get_indices_to_remove(raw_flagged_entries[k]) :
                                        k \in 1..Len(raw_flagged_entries) }
    /\ all_entries' = FinalCleanedEntries(all_entries, indices_to_remove')
    /\ pc' = "rerun"
    /\ UNCHANGED raw_flagged_entries
    /\ DedupFrame

\* The Duplicate strategy run again, on the collapsed entry list.
DedupRerun ==
    /\ pc = "rerun"
    /\ raw_flagged_entries' = DuplicateFlags(flag_duplicate_groups(all_entries), DUPLICATE_REASON)
    /\ pc' = "rerun done"
    /\ UNCHANGED << all_entries, indices_to_remove >>
    /\ DedupFrame

NextDedup ==
    \/ DedupRun
    \/ Collapse
    \/ DedupRerun

SpecDedup == InitDedup /\ [][NextDedup]_vars

\* ========================================================================
\* PROPERTIES
\* ========================================================================

\* The indices of the protected entries of a list.
ProtectedIndices(entries) ==
    { i \in 0..(Len(entries) - 1) : has_hist_keep(entries, i) }

\* Whether calculate_indices_to_remove has run in this state.
RemoverRan == pc \in {"backup", "write", "done"} /\ approved_flags # <<>>

\* C1: whatever flags are approved, the removal set calculate_indices_to_remove
\* returns holds no index of a protected entry, so every protected entry is
\* among the entries that survive.
C1_ProtectedNeverRemoved ==
    RemoverRan =>
        /\ indices_to_remove \cap ProtectedIndices(all_entries) = {}
        /\ \A i \in ProtectedIndices(all_entries) :
              all_entries[i + 1] \in SeqSet(FinalCleanedEntries(all_entries, indices_to_remove))

\* A partially protected Cluster and a Duplicate with a protected member were
\* approved, and what is left to remove is not empty.
C1_Witness ==
    /\ RemoverRan
    /\ \E k \in 1..Len(approved_flags) :
          /\ approved_flags[k].kind = "Cluster"
          /\ get_indices_to_remove(approved_flags[k]) \cap ProtectedIndices(all_entries) # {}
          /\ get_indices_to_remove(approved_flags[k]) \ ProtectedIndices(all_entries) # {}
    /\ \E k \in 1..Len(approved_flags) :
          /\ approved_flags[k].kind = "Duplicate"
          /\ get_indices_to_remove(approved_flags[k]) \cap ProtectedIndices(all_entries) # {}
    /\ indices_to_remove \cap (0..(Len(all_entries) - 1)) # {}

\* Whether parse_history_entries has run in this state.
Parsed == pc \notin {"start", "parse"} /\ outcome # "read error"

RECURSIVE LineCount(_)
\* The number of lines of a sequence of blocks.
LineCount(blocks) ==
    IF blocks = <<>> THEN 0 ELSE Len(Head(blocks)) + LineCount(Tail(blocks))

\* C2: the blocks parse_history_entries yields, concatenated in yield order,
\* are the input lines, and each block's start line is the number of lines
\* of the blocks before it.
C2_ParsePartition ==
    Parsed =>
        /\ Flatten(all_entries) = original_lines
        /\ Len(entry_line_nums) = Len(all_entries)
        /\ \A k \in 1..Len(all_entries) :
              entry_line_nums[k] = LineCount(SubSeq(all_entries, 1, k - 1))

\* A file was parsed that starts with a line that is no header and holds an
\* entry of three lines.
C2_Witness ==
    /\ Parsed
    /\ Len(all_entries) >= 3
    /\ ~HISTORY_ENTRY_RE(original_lines[1])
    /\ \E k \in 1..Len(all_entries) : Len(all_entries[k]) = 3

\* The last index of a Cluster or Duplicate flag.
LastIndex(flag) ==
    IF flag.kind = "Cluster" THEN flag.end_index
    ELSE flag.entry_indices[Len(flag.entry_indices)]

\* Whether a sequence of numbers is strictly ascending.
StrictlyAscending(seq) == \A a, b \in 1..Len(seq) : a < b => seq[a] < seq[b]

\* The property of C3 for one flag.
CollapsesToLast(flag) ==
    /\ flag.kind = "Cluster" =>
          /\ flag.end_index \notin get_indices_to_remove(flag)
          /\ flag.end_index \in get_all_covered_indices(flag)
    /\ flag.kind = "Duplicate" =>
          /\ StrictlyAscending(flag.entry_indices)
          /\ LastIndex(flag) \notin get_indices_to_remove(flag)
          /\ \A i \in get_indices_to_remove(flag) : i < LastIndex(flag)

\* C3: the removal set of a Cluster or Duplicate flag that comes out of merge
\* and the protection filter, and so reaches the Remover when approved, never
\* holds the flag's last index; a Duplicate's index list is strictly
\* ascending, so its last index is its highest.
C3_CollapseToLast ==
    /\ \A k \in 1..Len(final_flagged_entries) : CollapsesToLast(final_flagged_entries[k])
    /\ \A k \in 1..Len(approved_flags) : CollapsesToLast(approved_flags[k])

\* A Cluster and a Duplicate whose index list merge made shorter were
\* approved and handed to the Remover.
C3_Witness ==
    /\ pc = "backup"
    /\ \E k \in 1..Len(approved_flags) : approved_flags[k].kind = "Cluster"
    /\ \E k \in 1..Len(approved_flags), r \in 1..Len(raw_flagged_entries) :
          /\ approved_flags[k].kind = "Duplicate"
          /\ raw_flagged_entries[r].kind = "Duplicate"
          /\ SeqSet(approved_flags[k].entry_indices) \subseteq SeqSet(raw_flagged_entries[r].entry_indices)
          /\ Len(approved_flags[k].entry_indices) < Len(raw_flagged_entries[r].entry_indices)

\* Whether merge_flagged_entries has run on raw_flagged_entries in this state.
Merged == pc = "filter"

\* The Cluster flags of a flag list.
ClustersOf(flags) == SelectSeq(flags, LAMBDA f : f.kind = "Cluster")

\* C4: two Cluster flags A and B of merge_flagged_entries' output with
\* A.start_index < B.start_index have B.start_index > A.end_index + 1: their
\* ranges neither overlap nor touch.
C4_ClustersApart ==
    Merged =>
        \A a, b \in 1..Len(merged_flagged_entries) :
            (/\ merged_flagged_entries[a].kind = "Cluster"
             /\ merged_flagged_entries[b].kind = "Cluster"
             /\ merged_flagged_entries[a].start_index < merged_flagged_entries[b].start_index)
                => merged_flagged_entries[b].start_index > merged_flagged_entries[a].end_index + 1

\* Raw clusters that touch without overlapping were merged into one, and a
\* second cluster apart from it was kept.
C4_Witness ==
    /\ Merged
    /\ \E a, b \in 1..Len(raw_flagged_entries) :
          /\ raw_flagged_entries[a].kind = "Cluster"
          /\ raw_flagged_entries[b].kind = "Cluster"
          /\ raw_flagged_entries[b].start_index = raw_flagged_entries[a].end_index + 1
    /\ Len(ClustersOf(merged_flagged_entries)) = 2
\* Whether the strategies have run in this state.
Collected == pc \notin {"start", "parse", "collect"} /\ outcome # "read error"

\* The Individual flags the blacklist strategy raised for entry i.
BlacklistFlagsOf(i) ==
    SelectSeq(raw_flagged_entries,
              LAMBDA f : /\ f.kind = "Individual"
                         /\ f.entry_index = i
                         /\ f.reason_text[1].text = "Matches")

\* The positions of the patterns of BLACKLIST_PATTERNS that match a command.
MatchingPatterns(command) ==
    { k \in 1..Len(BLACKLIST_PATTERNS(command)) : BLACKLIST_PATTERNS(command)[k].found }

\* The least number of a non-empty set of numbers.
Least(S) == CHOOSE k \in S : \A m \in S : k <= m

\* C5: flag_individual_blacklist flags an entry exactly when its payload
\* matches at least one pattern of BLACKLIST_PATTERNS, and the reason names
\* the text matched by the first pattern, in list order, that matches.
C5_BlacklistAnyPattern ==
    Collected =>
        \A i \in 0..(Len(all_entries) - 1) :
            LET command == remove_timestamp_from_entry(all_entries[i + 1])
            IN  /\ (BlacklistFlagsOf(i) # <<>>) <=> (MatchingPatterns(command) # {})
                /\ BlacklistFlagsOf(i) # <<>> =>
                      /\ Len(BlacklistFlagsOf(i)) = 1
                      /\ BlacklistFlagsOf(i)[1].reason_text[1].match =
                            BLACKLIST_PATTERNS(command)[Least(MatchingPatterns(command))].group

\* Whether a write of backup_and_write_history was attempted.
WroteAny == \E k \in 1..Len(io_log) : io_log[k] \in {"write backup", "write history"}

\* The outcomes main reports when it ends without calling
\* backup_and_write_history.
UnchangedOutcomes ==
    { "read error",
      "No entries needed cleaning. History file unchanged.",
      "No changes applied. History file unchanged.",
      "Approval given, but no entries were ultimately removed. History file unchanged." }

\* What C6 requires before the history file is opened for writing.
WritePreconditions ==
    /\ history_readable
    /\ io_log # <<>> /\ io_log[1] = "read"
    /\ final_flagged_entries # <<>>
    /\ decision = "approve"
    /\ \E k \in 1..Len(flag_states) : flag_states[k]
    /\ approved_flags # <<>>
    /\ Len(FinalCleanedEntries(all_entries, indices_to_remove)) < Len(all_entries)

\* C6: a write of the backup or of the history file is attempted only after
\* the file was read, a flag survived merge and the protection filter, the
\* operator approved with a flag enabled and an entry is removed; a run that
\* ends otherwise has written neither file, and the history file is as read.
C6_WriteOnlyWhenDue ==
    /\ WroteAny => WritePreconditions
    /\ pc \in {"backup", "write"} => WritePreconditions
    /\ (pc = "done" /\ ~WritePreconditions) =>
          /\ ~WroteAny
          /\ backup_files = <<>>
          /\ outcome \in UnchangedOutcomes
    /\ (~WroteAny /\ history_readable /\ pc # "start") =>
          splitlines(history_file) = original_lines
    /\ (pc = "done" /\ outcome \in UnchangedOutcomes) => ~WroteAny

\* A run that wrote the backup and the cleaned history.
C6_Witness ==
    /\ pc = "done"
    /\ outcome = "Cleaned history"
    /\ backup_files = << FileText(original_lines) >>
    /\ splitlines(history_file) = cleaned_lines
    /\ Len(cleaned_lines) < Len(original_lines)

\* The positions of the flags whose toggle state is enabled.
EnabledFlags == { k \in 1..Len(flag_states) : flag_states[k] }

\* What C7 requires of every state: the flags handed on and the entries
\* removed.
HandedOnAsToggled ==
    /\ decision = "approve" =>
          /\ SeqSet(approved_flags) = { final_flagged_entries[k] : k \in EnabledFlags }
          /\ Len(approved_flags) = Cardinality(EnabledFlags)
    /\ decision = "reject" => approved_flags = <<>>
    /\ pc \in {"backup", "write", "done"} =>
          indices_to_remove \subseteq
              UNION { get_indices_to_remove(final_flagged_entries[k]) : k \in EnabledFlags }

\* C7: every flag starts enabled; on approve the flags handed to the Remover
\* are exactly those enabled at that moment, on reject none; so an entry is
\* removed only if an enabled flag's removal set holds it.
C7_ApprovedAreEnabled ==
    /\ []HandedOnAsToggled
    /\ [][pc = "confirm" =>
            /\ Len(flag_states') = Len(final_flagged_entries)
            /\ \A k \in 1..Len(flag_states') : flag_states'[k]]_vars

\* The operator approved from entry mode with one flag disabled and another
\* enabled, and an entry was removed.
C7_Witness ==
    /\ pc = "backup"
    /\ decision = "approve"
    /\ mode = "entry"
    /\ \E k \in 1..Len(flag_states) : ~flag_states[k]
    /\ \E k \in 1..Len(flag_states) : flag_states[k]
    /\ indices_to_remove # {}

\* C8: merge_flagged_entries' output is in ascending order of sort key
\* (Individual: entry_index; Cluster: start_index; Duplicate: the first of
\* its filtered index list), and no entry has more than one flag in it.
C8_SortedOneFlagEach ==
    Merged =>
        \A a, b \in 1..Len(merged_flagged_entries) :
            a < b =>
                /\ get_sort_key(merged_flagged_entries[a]) <= get_sort_key(merged_flagged_entries[b])
                /\ get_all_covered_indices(merged_flagged_entries[a])
                       \cap get_all_covered_indices(merged_flagged_entries[b]) = {}

\* A raw list that is not in sort-key order was merged into flags of the
\* three kinds.
C8_Witness ==
    /\ Merged
    /\ \E a, b \in 1..Len(raw_flagged_entries) :
          a < b /\ get_sort_key(raw_flagged_entries[a]) > get_sort_key(raw_flagged_entries[b])
    /\ { merged_flagged_entries[k].kind : k \in 1..Len(merged_flagged_entries) }
          = {"Individual", "Cluster", "Duplicate"}

\* Every reordering of a list.
Permutations(seq) ==
    { [k \in 1..Len(seq) |-> seq[f[k]]] :
        f \in { g \in [1..Len(seq) -> 1..Len(seq)] :
                  \A a, b \in 1..Len(seq) : a # b => g[a] # g[b] } }

\* Whether two flag lists hold, position by position, flags of the same kind
\* over the same indices with the same reasons, the order of a flag's
\* reasons apart.
SameFlagsUpToReasonOrder(left, right) ==
    /\ Len(left) = Len(right)
    /\ \A k \in 1..Len(left) :
          /\ left[k].kind = right[k].kind
          /\ left[k].entry_index = right[k].entry_index
          /\ left[k].start_index = right[k].start_index
          /\ left[k].end_index = right[k].end_index
          /\ left[k].entry_indices = right[k].entry_indices
          /\ SeqSet(left[k].reason_text) = SeqSet(right[k].reason_text)

\* C9 as stated: merge_flagged_entries returns the same list, reason text
\* included, for every reordering of the raw list.
C9_SameForEveryOrder ==
    Merged =>
        \A raw \in Permutations(raw_flagged_entries) :
            merge_flagged_entries(raw) = merged_flagged_entries

\* C9, amended: merge_flagged_entries returns, for every reordering of the
\* raw list, the same flags in the same order with the same kinds, indices
\* and reasons; only the order of the reasons inside a flag's text may differ.
C9_SameUpToReasonOrder ==
    Merged =>
        \A raw \in Permutations(raw_flagged_entries) :
            SameFlagsUpToReasonOrder(merge_flagged_entries(raw), merged_flagged_entries)

\* A raw list one of whose reorderings merges to a different reason text.
C9_Witness ==
    /\ Merged
    /\ Len(raw_flagged_entries) = MaxRaw
    /\ \E raw \in Permutations(raw_flagged_entries) :
          merge_flagged_entries(raw) # merged_flagged_entries

\* C10: once every group of flag_duplicate_groups is collapsed to its last
\* member, flag_duplicate_groups yields no group on the entries that remain.
C10_DedupIdempotent ==
    pc = "rerun done" => raw_flagged_entries = <<>>

\* A group of three or more and another group were collapsed, and the
\* strategy was run again on the entries left.
C10_Witness ==
    /\ pc = "rerun done"
    /\ Cardinality(indices_to_remove) >= 2
    /\ Len(all_entries) >= 2

\* ========================================================================
\* filter_flags_by_hist_keep ON ITS OWN
\* ========================================================================

InitFilter ==
    /\ pc = "filter"
    /\ history_readable = TRUE
    /\ history_file = <<>>
    /\ raw_flagged_entries = <<>>
    /\ approved_flags = <<>>
    /\ io_log = <<>>
    /\ backup_files = <<>>
    /\ original_lines = <<>>
    /\ entry_line_nums = <<>>
    /\ final_flagged_entries = <<>>
    /\ flag_states = <<>>
    /\ mode = "flag"
    /\ focused = NoWidget
    /\ current_flag = 0
    /\ current_entries = <<>>
    /\ decision = "none"
    /\ indices_to_remove = {}
    /\ cleaned_lines = <<>>
    /\ outcome = "running"
    /\ exit_code = 0
    /\ removed_count = 0
    /\ \E entries \in BoundedSeq(RemoveEntryPool, MaxEntries) : all_entries = entries
    /\ \E flags \in BoundedSeq(ApprovedFlagPool, MaxApproved) : merged_flagged_entries = flags

SpecFilter == InitFilter /\ [][Filter]_vars

\* Whether filter_flags_by_hist_keep has run in this state.
Filtered == pc \in {"confirm", "done"} /\ outcome # "read error"

\* The indices of a Duplicate flag that are not protected.
UnprotectedOf(flag) ==
    SelectSeq(flag.entry_indices, LAMBDA i : i \notin ProtectedIndices(all_entries))

\* The Duplicate flags of a flag list.
DuplicatesOf(flags) == SelectSeq(flags, LAMBDA f : f.kind = "Duplicate")

\* C11: in the output of filter_flags_by_hist_keep no Individual flag names a
\* protected entry, no Duplicate flag lists one, every Duplicate flag kept
\* has at least two indices, and a Duplicate with fewer than two unprotected
\* indices is dropped.
C11_FilterOutputUnprotected ==
    Filtered =>
        /\ \A k \in 1..Len(final_flagged_entries) :
              LET flag == final_flagged_entries[k]
              IN  /\ flag.kind = "Individual" =>
                        flag.entry_index \notin ProtectedIndices(all_entries)
                  /\ flag.kind = "Duplicate" =>
                        /\ SeqSet(flag.entry_indices) \cap ProtectedIndices(all_entries) = {}
                        /\ Len(flag.entry_indices) >= 2
        /\ Len(DuplicatesOf(final_flagged_entries))
              = Len(SelectSeq(DuplicatesOf(merged_flagged_entries),
                              LAMBDA f : Len(UnprotectedOf(f)) >= 2))

\* The filter ran on an Individual flag of a protected entry, on a Duplicate
\* that keeps two of its three indices and on nothing else, and kept one flag.
C11_Witness ==
    /\ Filtered
    /\ \E k \in 1..Len(merged_flagged_entries) :
          /\ merged_flagged_entries[k].kind = "Individual"
          /\ merged_flagged_entries[k].entry_index \in ProtectedIndices(all_entries)
    /\ \E k \in 1..Len(merged_flagged_entries) :
          /\ merged_flagged_entries[k].kind = "Duplicate"
          /\ Len(merged_flagged_entries[k].entry_indices) = 3
          /\ Len(UnprotectedOf(merged_flagged_entries[k])) = 2
    /\ Len(final_flagged_entries) = 1

\* Whether every index of a Cluster's removal range is protected, the range
\* holding at least one index.
AllRemovalsProtected(flag) ==
    /\ flag.start_index < flag.end_index
    /\ \A i \in flag.start_index .. (flag.end_index - 1) :
          i \in ProtectedIndices(all_entries)

\* C20: filter_flags_by_hist_keep drops a Cluster flag exactly when its
\* removal range is not empty and holds protected entries only; every other
\* Cluster flag is kept with the same start_index and end_index.
C20_ClusterDroppedIffAllProtected ==
    Filtered =>
        ClustersOf(final_flagged_entries)
            = SelectSeq(ClustersOf(merged_flagged_entries),
                        LAMBDA f : ~AllRemovalsProtected(f))

\* The filter ran on a Cluster whose removal range is protected throughout
\* and on one whose removal range is protected in part, and kept the second.
C20_Witness ==
    /\ Filtered
    /\ \E k \in 1..Len(merged_flagged_entries) :
          /\ merged_flagged_entries[k].kind = "Cluster"
          /\ AllRemovalsProtected(merged_flagged_entries[k])
    /\ \E k \in 1..Len(final_flagged_entries) :
          /\ final_flagged_entries[k].kind = "Cluster"
          /\ \E i \in get_indices_to_remove(final_flagged_entries[k]) :
                i \in ProtectedIndices(all_entries)
          /\ \E i \in get_indices_to_remove(final_flagged_entries[k]) :
                i \notin ProtectedIndices(all_entries)

\* C12: an Individual flag that merge_flagged_entries drops because its
\* entry index lies in a merged Cluster's covered range names an entry of
\* that Cluster's removal set, so approving the Cluster still removes it.
C12_DroppedIndividualStillRemoved ==
    Merged =>
        \A r \in 1..Len(raw_flagged_entries) :
            (/\ raw_flagged_entries[r].kind = "Individual"
             /\ \E k \in 1..Len(merged_flagged_entries) :
                   /\ merged_flagged_entries[k].kind = "Cluster"
                   /\ raw_flagged_entries[r].entry_index
                          \in get_all_covered_indices(merged_flagged_entries[k]))
                => \E k \in 1..Len(merged_flagged_entries) :
                      /\ merged_flagged_entries[k].kind = "Cluster"
                      /\ raw_flagged_entries[r].entry_index
                             \in get_indices_to_remove(merged_flagged_entries[k])

\* Whether the Jaccard strategy put entries i and j in one cluster.
InOneJaccardCluster(i, j) ==
    \E k \in 1..Len(raw_flagged_entries) :
        /\ raw_flagged_entries[k].kind = "Cluster"
        /\ raw_flagged_entries[k].reason_text = JACCARD_REASON
        /\ raw_flagged_entries[k].start_index <= i
        /\ j <= raw_flagged_entries[k].end_index

\* C13: two entries whose payloads are empty after stripping, the second
\* within the lookahead window of the first, are similar for the Jaccard
\* strategy and end up in one cluster of flag_cluster_jaccard_similarity.
C13_BlankEntriesClustered ==
    Collected =>
        \A i, j \in 0..(Len(all_entries) - 1) :
            (/\ i < j
             /\ j - i <= MAX_CLUSTER_LOOKAHEAD
             /\ StrippedCommand(all_entries, i) = <<>>
             /\ StrippedCommand(all_entries, j) = <<>>)
                => InOneJaccardCluster(i, j)

\* Whether the token sets of two payloads have Jaccard similarity >= 0.5.
HalfTokensShared(cmd1, cmd2) ==
    2 * Cardinality(Tokens(cmd1) \cap Tokens(cmd2))
        >= Cardinality(Tokens(cmd1) \cup Tokens(cmd2))

\* Whether entries i..j are a run of non-empty payloads, any two of them
\* Jaccard-similar.
PairwiseSimilarRun(i, j) ==
    /\ i < j
    /\ \A a \in i..j : StrippedCommand(all_entries, a) # <<>>
    /\ \A a, b \in i..j :
          HalfTokensShared(StrippedCommand(all_entries, a), StrippedCommand(all_entries, b))

\* Whether the operator approved with every flag enabled and the Remover ran.
ApprovedEverything ==
    /\ pc \in {"backup", "write", "done"}
    /\ decision = "approve"
    /\ \A k \in 1..Len(flag_states) : flag_states[k]

\* C14: consecutive entries with non-empty, pairwise Jaccard-similar payloads
\* are all inside one cluster of flag_cluster_jaccard_similarity, and when
\* every flag is approved and no entry is protected, all of them but
\* possibly the last are removed.
C14_SimilarRunCollapses ==
    Collected =>
        \A i, j \in 0..(Len(all_entries) - 1) :
            PairwiseSimilarRun(i, j) =>
                /\ InOneJaccardCluster(i, j)
                /\ (ApprovedEverything /\ ProtectedIndices(all_entries) = {})
                      => i..(j - 1) \subseteq indices_to_remove

\* A run of three pairwise similar entries was flagged, everything was
\* approved, and the entry after the run was kept.
C14_Witness ==
    /\ ApprovedEverything
    /\ Len(all_entries) = 4
    /\ ProtectedIndices(all_entries) = {}
    /\ PairwiseSimilarRun(0, 2)
    /\ indices_to_remove = {0, 1}

\* Whether main has built cleaned_lines in this state.
Rebuilt == pc = "write" \/ outcome \in {"Cleaned history", "Error writing to history file"}

\* The index of the entry that holds line l (0-based) of original_lines.
EntryOfLine(l) ==
    CHOOSE e \in 0..(Len(all_entries) - 1) :
        /\ entry_line_nums[e + 1] <= l
        /\ l < entry_line_nums[e + 1] + Len(all_entries[e + 1])

\* The lines of original_lines whose entry is not in the removal set, in
\* their order.
SurvivingLines ==
    LET kept == SelectSeq(Range0(Len(original_lines)),
                          LAMBDA l : EntryOfLine(l) \notin indices_to_remove)
    IN  [k \in 1..Len(kept) |-> original_lines[kept[k] + 1]]

\* C15: the line sequence main writes is original_lines without the lines of
\* the entries in the removal set, every other entry whole and in place; the
\* removed count is the number of indices of entries in the removal set.
C15_SurvivingLinesAreTheComplement ==
    /\ Rebuilt => cleaned_lines = SurvivingLines
    /\ outcome = "Cleaned history" =>
          /\ history_file = FileText(SurvivingLines)
          /\ removed_count = Cardinality(indices_to_remove \cap (0..(Len(all_entries) - 1)))

\* A run wrote the history without two entries, one of them of several
\* lines, and with lines left.
C15_Witness ==
    /\ outcome = "Cleaned history"
    /\ removed_count = 2
    /\ \E i \in indices_to_remove : Len(all_entries[i + 1]) > 1
    /\ cleaned_lines # <<>>

\* Whether the run has attempted the named write.
Attempted(write) == \E k \in 1..Len(io_log) : io_log[k] = write

\* Whether the backup attempt left no usable backup: none created, or an
\* empty one.
BackupFailed ==
    /\ Attempted("write backup")
    /\ \A k \in 1..Len(backup_files) : backup_files[k] = <<>>

\* C16: once the backup write has been attempted the history write is
\* attempted too, whether or not the backup was written; a run that attempted
\* the backup ends with a non-zero status only when the history write failed.
C16_BackupFailureDoesNotStopWrite ==
    /\ (Attempted("write backup") /\ pc = "done") => Attempted("write history")
    /\ (Attempted("write backup") /\ exit_code # 0) =>
           outcome = "Error writing to history file"
    /\ (BackupFailed /\ outcome = "Cleaned history") =>
           /\ exit_code = 0
           /\ history_file = FileText(cleaned_lines)

\* The backup could not be written and the history file was written all the
\* same, the run ending with status 0.
C16_Witness ==
    /\ pc = "done"
    /\ BackupFailed
    /\ Attempted("write history")
    /\ outcome = "Cleaned history"
    /\ exit_code = 0

\* The whitespace-stripped payload of entry index i of the current list.
Payload(i) == strip(remove_timestamp_from_entry(all_entries[i + 1]))

\* The indices of the entries whose payload is that of entry i, ascending.
SamePayload(i) ==
    SelectSeq(Range0(Len(all_entries)), LAMBDA j : Payload(j) = Payload(i))

\* Whether flag_duplicate_groups has just run on the current entry list.
DedupRan == pc = "collapse"

RECURSIVE ReasonLines(_)
\* The reason lines of a list of flags, one flag after the other.
ReasonLines(flags) ==
    IF flags = <<>> THEN <<>>
    ELSE Head(flags).reason_text \o ReasonLines(Tail(flags))

\* The raw Individual flags of entry index i, in raw-list order.
RawIndividualsOf(i) ==
    SelectSeq(raw_flagged_entries, LAMBDA f : f.kind = "Individual" /\ f.entry_index = i)

\* C18: the merged list holds at most one Individual flag per entry index,
\* and the reason text of each is the reason lines of all the raw Individual
\* flags of that index, none lost, in raw-list order.
C18_OneIndividualPerIndex ==
    Merged =>
        /\ \A k1, k2 \in 1..Len(merged_flagged_entries) :
              ( /\ k1 # k2
                /\ merged_flagged_entries[k1].kind = "Individual"
                /\ merged_flagged_entries[k2].kind = "Individual" )
              => merged_flagged_entries[k1].entry_index
                    # merged_flagged_entries[k2].entry_index
        /\ \A k \in 1..Len(merged_flagged_entries) :
              merged_flagged_entries[k].kind = "Individual"
              => merged_flagged_entries[k].reason_text
                    = ReasonLines(RawIndividualsOf(merged_flagged_entries[k].entry_index))

\* Two raw Individual flags of one entry, the empty-entry one first, became
\* one merged flag of two reason lines.
C18_Witness ==
    /\ Merged
    /\ Len(RawIndividualsOf(1)) = 2
    /\ \E k \in 1..Len(merged_flagged_entries) :
          /\ merged_flagged_entries[k].kind = "Individual"
          /\ merged_flagged_entries[k].entry_index = 1
          /\ merged_flagged_entries[k].reason_text = <<EMPTY_REASON, MULTILINE_REASON>>

\* Whether index i lies in the range [start,end] of a Cluster of the merged
\* list.
InMergedCluster(i) ==
    \E k \in 1..Len(merged_flagged_entries) :
        /\ merged_flagged_entries[k].kind = "Cluster"
        /\ merged_flagged_entries[k].start_index <= i
        /\ i <= merged_flagged_entries[k].end_index

\* Whether index i is that of an Individual flag of the merged list.
HasSurvivingIndividual(i) ==
    \E k \in 1..Len(merged_flagged_entries) :
        /\ merged_flagged_entries[k].kind = "Individual"
        /\ merged_flagged_entries[k].entry_index = i

\* The indices of a raw Duplicate flag outside every merged Cluster and
\* without a surviving Individual flag, in the flag's order.
RemainingIndices(dup_flag) ==
    SelectSeq(dup_flag.entry_indices,
              LAMBDA i : ~InMergedCluster(i) /\ ~HasSurvivingIndividual(i))

\* C19: the Duplicate flags of the merged list are the raw Duplicate flags
\* with two or more remaining indices, each with exactly its remaining
\* indices in their order: those outside every merged Cluster's range and
\* not the index of a surviving Individual flag.
C19_DuplicatesKeepRemainingIndices ==
    Merged =>
        LET raw_duplicates == SelectSeq(raw_flagged_entries, LAMBDA f : f.kind = "Duplicate")
            emitted == SelectSeq(raw_duplicates, LAMBDA f : Len(RemainingIndices(f)) >= 2)
            merged_duplicates ==
                SelectSeq(merged_flagged_entries, LAMBDA f : f.kind = "Duplicate")
        IN  /\ Len(merged_duplicates) = Len(emitted)
            /\ \A k \in 1..Len(emitted) :
                  \E m \in 1..Len(merged_duplicates) :
                      merged_duplicates[m] =
                          [emitted[k] EXCEPT !.entry_indices = RemainingIndices(emitted[k])]

\* A raw Duplicate flag of three indices lost one to an Individual flag and
\* was emitted with the other two, next to a merged Cluster.
C19_Witness ==
    /\ Merged
    /\ \E k \in 1..Len(raw_flagged_entries) :
          /\ raw_flagged_entries[k].kind = "Duplicate"
          /\ raw_flagged_entries[k].entry_indices = <<2, 5, 6>>
    /\ HasSurvivingIndividual(6)
    /\ \E k \in 1..Len(merged_flagged_entries) :
          merged_flagged_entries[k].kind = "Cluster"
    /\ \E k \in 1..Len(merged_flagged_entries) :
          /\ merged_flagged_entries[k].kind = "Duplicate"
          /\ merged_flagged_entries[k].entry_indices = <<2, 5>>

\* ========================================================================
\* THE CLUSTER STRATEGIES ON THEIR OWN
\* ========================================================================

\* The longest entry list a cluster strategy is run on.
MaxClusterEntries == 4

Entry_ls_l == << Line_ls_l >>

Entry_cd == << Line_cd >>

ClusterEntryPool == { Entry_ls, Entry_ls_l, Entry_pwd, Entry_cd, Entry_no_command }

InitCluster ==
    /\ pc = "cluster"
    /\ history_readable = TRUE
    /\ history_file = <<>>
    /\ raw_flagged_entries = <<>>
    /\ approved_flags = <<>>
    /\ Idle
    /\ \E entries \in BoundedSeq(ClusterEntryPool, MaxClusterEntries) : all_entries = entries

\* The Jaccard cluster strategy run on the entry list.
ClusterJaccard ==
    /\ pc = "cluster"
    /\ raw_flagged_entries' =
           ClusterFlags(flag_cluster_jaccard_similarity(all_entries), JACCARD_REASON)
    /\ pc' = "jaccard done"
    /\ UNCHANGED << all_entries, indices_to_remove >>
    /\ DedupFrame

\* The difflib cluster strategy run on the entry list.
ClusterDifflib ==
    /\ pc = "cluster"
    /\ raw_flagged_entries' =
           ClusterFlags(flag_cluster_difflib_similarity(all_entries), DIFFLIB_REASON)
    /\ pc' = "difflib done"
    /\ UNCHANGED << all_entries, indices_to_remove >>
    /\ DedupFrame

NextCluster ==
    \/ ClusterJaccard
    \/ ClusterDifflib

SpecCluster == InitCluster /\ [][NextCluster]_vars

\* Whether entries a and b have non-empty payloads of Jaccard similarity
\* >= 0.5.
JaccardPair(a, b) ==
    /\ Payload(a) # <<>>
    /\ Payload(b) # <<>>
    /\ HalfTokensShared(Payload(a), Payload(b))

RECURSIVE MatchedFrom(_, _)
\* Whether entry k passed the similarity test of the cluster that starts at
\* s: it was tested, at most 2 positions past the last entry that passed,
\* and is similar to an entry from s to that one.  The start passes.
MatchedFrom(s, k) ==
    IF k = s THEN TRUE
    ELSE LET last == CHOOSE m \in s..(k - 1) :
                        MatchedFrom(s, m) /\ \A n \in (m + 1)..(k - 1) : ~MatchedFrom(s, n)
         IN  /\ k - last <= 2
             /\ \E m \in s..last : JaccardPair(m, k)

\* C21: every cluster [s,e] of flag_cluster_jaccard_similarity has s < e, its
\* last entry is similar to an earlier entry of the cluster, an entry that
\* failed the similarity test is followed inside the cluster by one that
\* passed it, and the clusters of a run are ascending and disjoint.
C21_JaccardClustersWellFormed ==
    pc = "jaccard done" =>
        /\ \A c \in 1..Len(raw_flagged_entries) :
              LET s == raw_flagged_entries[c].start_index
                  e == raw_flagged_entries[c].end_index
              IN  /\ 0 <= s /\ s < e /\ e < Len(all_entries)
                  /\ MatchedFrom(s, e)
                  /\ \E m \in s..(e - 1) : JaccardPair(m, e)
                  /\ \A k \in (s + 1)..(e - 1) :
                        ~MatchedFrom(s, k) => MatchedFrom(s, k + 1)
        /\ \A c \in 1..(Len(raw_flagged_entries) - 1) :
              raw_flagged_entries[c].end_index < raw_flagged_entries[c + 1].start_index

\* Of four entries, a cluster absorbed one that failed the test, between
\* two that are similar.
C21_Witness ==
    /\ pc = "jaccard done"
    /\ Len(all_entries) = 4
    /\ Len(raw_flagged_entries) >= 1
    /\ raw_flagged_entries[1].start_index = 0
    /\ raw_flagged_entries[1].end_index = 2
    /\ ~MatchedFrom(0, 1)

\* Whether entries k and k + 1 have non-empty payloads that pass the difflib
\* test, in this order.
AdjacentSimilar(k) ==
    /\ Payload(k) # <<>>
    /\ Payload(k + 1) # <<>>
    /\ are_commands_similar_difflib(Payload(k), Payload(k + 1))

\* The maximal runs [i,j], i < j, of similar adjacent pairs of the entry
\* list.
MaximalRuns ==
    LET n == Len(all_entries)
    IN  { <<i, j>> \in (0..(n - 1)) \X (0..(n - 1)) :
            /\ i < j
            /\ \A k \in i..(j - 1) : AdjacentSimilar(k)
            /\ (i = 0 \/ ~AdjacentSimilar(i - 1))
            /\ (j = n - 1 \/ ~AdjacentSimilar(j)) }

\* C22: flag_cluster_difflib_similarity emits exactly the maximal runs of
\* similar adjacent pairs, each once, in ascending order and disjoint.
C22_DifflibRunsAreMaximal ==
    pc = "difflib done" =>
        /\ { <<raw_flagged_entries[c].start_index, raw_flagged_entries[c].end_index>> :
                c \in 1..Len(raw_flagged_entries) } = MaximalRuns
        /\ \A c \in 1..(Len(raw_flagged_entries) - 1) :
              raw_flagged_entries[c].end_index < raw_flagged_entries[c + 1].start_index

\* Two runs were emitted, one right after the other, the pair between them
\* not similar.
C22_Witness ==
    /\ pc = "difflib done"
    /\ Len(raw_flagged_entries) = 2
    /\ raw_flagged_entries[1].end_index = 1
    /\ raw_flagged_entries[2].start_index = 2
    /\ ~AdjacentSimilar(1)

\* C23: of the blocks parse_history_entries yields, one of several lines
\* starts with a header line and holds no other header line; one whose first
\* line is no header has that line only, and no header line comes before it
\* in the input.
C23_BlocksFollowHeaders ==
    Parsed =>
        \A k \in 1..Len(all_entries) :
            LET block == all_entries[k]
            IN  /\ block # <<>>
                /\ Len(block) > 1 =>
                      /\ HISTORY_ENTRY_RE(block[1])
                      /\ \A m \in 2..Len(block) : ~HISTORY_ENTRY_RE(block[m])
                /\ ~HISTORY_ENTRY_RE(block[1]) =>
                      /\ Len(block) = 1
                      /\ \A l \in 1..entry_line_nums[k] : ~HISTORY_ENTRY_RE(original_lines[l])

\* A file was parsed into a line that is no header, a header with two such
\* lines after it, and a header alone.
C23_Witness ==
    /\ Parsed
    /\ Len(all_entries) = 3
    /\ ~HISTORY_ENTRY_RE(all_entries[1][1])
    /\ Len(all_entries[2]) = 3
    /\ all_entries[3] = << Line_ls >>

\* The panel a toggle acts on in this state: the focused one in flag mode,
\* the one entered in entry mode.
ReviewedPanel == IF mode = "flag" THEN focused.panel ELSE current_flag

\* C24: a toggle flips the state of the one flag under review and of no
\* other, and changes neither the flags, nor the entries, nor which flag is
\* under review; so a second toggle flips the same flag back.
C24_ToggleFlipsOneFlag ==
    [][action_toggle_panel =>
          /\ ReviewedPanel \in 1..Len(flag_states)
          /\ flag_states' = [k \in 1..Len(flag_states) |->
                                IF k = ReviewedPanel THEN ~flag_states[k] ELSE flag_states[k]]
          /\ ReviewedPanel' = ReviewedPanel
          /\ UNCHANGED << final_flagged_entries, merged_flagged_entries,
                          raw_flagged_entries, all_entries, entry_line_nums,
                          original_lines, mode, focused, current_flag, current_entries,
                          history_file, backup_files, indices_to_remove >>]_vars

\* In entry mode, with an Entry row focused, the flag entered is disabled
\* and another flag is still enabled.
C24_Witness ==
    /\ pc = "review"
    /\ mode = "entry"
    /\ IsEntry(focused)
    /\ current_flag \in 1..Len(flag_states)
    /\ ~flag_states[current_flag]
    /\ \E k \in 1..Len(flag_states) : flag_states[k]

\* The indices inside the range [start,end] of a Cluster flag of a list.
ClusterCoverage(flags) ==
    UNION { flags[k].start_index..flags[k].end_index :
                k \in { k \in 1..Len(flags) : flags[k].kind = "Cluster" } }

\* The raw Cluster flags whose range lies inside that of a merged one.
AbsorbedBy(merged_cluster) ==
    { k \in 1..Len(raw_flagged_entries) :
        /\ raw_flagged_entries[k].kind = "Cluster"
        /\ merged_cluster.start_index <= raw_flagged_entries[k].start_index
        /\ raw_flagged_entries[k].end_index <= merged_cluster.end_index }

\* C25: the ranges of the merged Cluster flags cover the indices the ranges
\* of the raw Cluster flags cover, no more and no fewer, and each merged
\* range goes from the least start to the greatest end of the raw clusters
\* inside it.
C25_SweepPreservesCoverage ==
    Merged =>
        /\ ClusterCoverage(merged_flagged_entries) = ClusterCoverage(raw_flagged_entries)
        /\ \A m \in 1..Len(merged_flagged_entries) :
              merged_flagged_entries[m].kind = "Cluster" =>
                  LET absorbed == AbsorbedBy(merged_flagged_entries[m])
                  IN  /\ absorbed # {}
                      /\ \E k \in absorbed : raw_flagged_entries[k].start_index
                                                = merged_flagged_entries[m].start_index
                      /\ \E k \in absorbed : raw_flagged_entries[k].end_index
                                                = merged_flagged_entries[m].end_index
        /\ \A k \in 1..Len(raw_flagged_entries) :
              raw_flagged_entries[k].kind = "Cluster" =>
                  \E m \in 1..Len(merged_flagged_entries) :
                      /\ merged_flagged_entries[m].kind = "Cluster"
                      /\ k \in AbsorbedBy(merged_flagged_entries[m])

\* A cluster absorbed one that starts with it and ends before it, and one
\* that touches it, and kept the greatest end.
C25_Witness ==
    /\ Merged
    /\ raw_flagged_entries =
          << ClusterFlag(0, 2, JACCARD_REASON), ClusterFlag(0, 1, DIFFLIB_REASON),
             ClusterFlag(3, 4, JACCARD_REASON) >>
    /\ Len(merged_flagged_entries) = 1
    /\ merged_flagged_entries[1].start_index = 0
    /\ merged_flagged_entries[1].end_index = 4

\* C26: every step that opens the history file for writing, or changes its
\* content, is taken after the backup write has been attempted.
C26_BackupAttemptedFirst ==
    [][(history_file' # history_file \/ io_log' = Append(io_log, "write history"))
          => Attempted("write backup")]_vars

\* The backup holds the original lines and the history file, written after
\* it, holds other lines.
C26_Witness ==
    /\ pc = "done"
    /\ io_log = <<"read", "write backup", "write history">>
    /\ backup_files = << FileText(original_lines) >>
    /\ history_file = FileText(cleaned_lines)
    /\ cleaned_lines # original_lines

\* The entries a flag names: its index, its range [start,end], or its
\* index list.
NamedIndices(flag) ==
    IF flag.kind = "Individual" THEN {flag.entry_index}
    ELSE IF flag.kind = "Cluster" THEN flag.start_index..flag.end_index
    ELSE SeqSet(flag.entry_indices)

\* The first entry a flag names.
AnchorIndex(flag) ==
    IF flag.kind = "Individual" THEN flag.entry_index
    ELSE IF flag.kind = "Cluster" THEN flag.start_index
    ELSE flag.entry_indices[1]

\* C27: any two flags of the merged list name disjoint sets of entries, so
\* their anchor indices differ and neither removes the last entry of the
\* other, which that one keeps.
C27_MergedFlagsDisjoint ==
    Merged =>
        \A a, b \in 1..Len(merged_flagged_entries) :
            a # b =>
                /\ NamedIndices(merged_flagged_entries[a])
                      \cap NamedIndices(merged_flagged_entries[b]) = {}
                /\ AnchorIndex(merged_flagged_entries[a]) # AnchorIndex(merged_flagged_entries[b])
                /\ merged_flagged_entries[b].kind # "Individual" =>
                      LastIndex(merged_flagged_entries[b])
                          \notin get_indices_to_remove(merged_flagged_entries[a])

\* Raw flags that name an entry twice were merged into a Cluster, an
\* Individual and a Duplicate flag.
C27_Witness ==
    /\ Merged
    /\ \E a, b \in 1..Len(raw_flagged_entries) :
          a # b /\ NamedIndices(raw_flagged_entries[a]) \cap NamedIndices(raw_flagged_entries[b]) # {}
    /\ { merged_flagged_entries[k].kind : k \in 1..Len(merged_flagged_entries) }
          = {"Individual", "Cluster", "Duplicate"}

\* The indices the raw flags propose to remove.
RawRemovals ==
    UNION { get_indices_to_remove(raw_flagged_entries[k]) : k \in 1..Len(raw_flagged_entries) }

\* C28: every index a flag of the merged list removes is one a raw flag
\* removes.
C28_MergedRemovalsWereProposed ==
    Merged =>
        \A m \in 1..Len(merged_flagged_entries) :
            get_indices_to_remove(merged_flagged_entries[m]) \subseteq RawRemovals

\* The indices of the entries a run leaves in the history.
SurvivingIndices == (0..(Len(all_entries) - 1)) \ indices_to_remove

\* C29: after a run in which every flag was approved and no entry is
\* protected, no two entries left have the same non-empty stripped payload.
C29_NoDuplicateSurvives ==
    (ApprovedEverything /\ ProtectedIndices(all_entries) = {}) =>
        \A i, j \in SurvivingIndices :
            (i # j /\ Payload(i) # <<>>) => Payload(i) # Payload(j)

\* C30: the flags filter_flags_by_hist_keep hands to the review are in
\* ascending order of their first index, wherever the protection markers
\* are.
C30_ReviewListSorted ==
    Filtered =>
        \A a, b \in 1..Len(final_flagged_entries) :
            a < b => AnchorIndex(final_flagged_entries[a]) < AnchorIndex(final_flagged_entries[b])

\* The filter dropped the first flag of the merged list, a Duplicate flag of
\* protected entries, and handed on the two flags after it.
C30_Witness ==
    /\ Filtered
    /\ Len(merged_flagged_entries) = 3
    /\ merged_flagged_entries[1].kind = "Duplicate"
    /\ \A i \in SeqSet(merged_flagged_entries[1].entry_indices) : has_hist_keep(all_entries, i)
    /\ final_flagged_entries = SubSeq(merged_flagged_entries, 2, 3)

====
